---- MODULE Spec2Model ----
(***************************************************************************)
(* A model of the AdProcess synchronisation core:                          *)
(*   - the JSON document store (AdConfig.load_json_preserve_order,         *)
(*     AdConfig.AtomicWrite_json, SyncFiles._write_json_atomic),           *)
(*   - the three-way reconciliation (SyncFiles.sync_common, with           *)
(*     AdConfig.LoadConfig and SyncFiles._persist_last_good_and_apply),    *)
(*   - the slideshow directory swap (SyncFiles.SyncDir),                   *)
(*   - the RAM staging root (RamStaging.InitRamStaging).                   *)
(* A leading underscore of a Python name is dropped (write_json_atomic is  *)
(* _write_json_atomic, mtime is _mtime).                                   *)
(***************************************************************************)
EXTENDS Integers, Sequences, FiniteSets, TLC

VARIABLES
    \* ---- document store (one write, then one read) ----
    stDoc,      \* the document handed to the writer
    stDst,      \* the destination file
    stTemps,    \* temporary files left in the destination's directory
    stOp,       \* the write performed: [pc, writer, fault, rmFault, ret, pre]
    stRead,     \* the result of load_json_preserve_order on the destination
    \* ---- three-way reconciliation ----
    basename,   \* the document being reconciled: "config.json" or "PlayList.json"
    files,      \* the document's files: cloud, local, last_good, tmp, lg_p, lg_tmp
    temps,      \* temporary files left in LOCAL_CONFIGS by _write_json_atomic
    CONFIG,     \* AdConfig.CONFIG
    PLAY_LIST,  \* AdConfig.PLAY_LIST
    now,        \* the clock that stamps the files this program writes
    call,       \* the call that just returned (or NoCall)
    prevCall,   \* the call before it, while nobody has touched the files since
    \* ---- slideshow directory swap ----
    dirs,       \* the directories SyncDir works on: src, dst, ram, sd, old (and base)
    VideoBeingPlayed,   \* Player.VideoBeingPlayed
    PlayerProcess,      \* Player.PlayerProcess: "none", "running" or "exited"
    pc,         \* where the SyncDir pass stands
    loc,        \* the locals of the SyncDir pass
    \* ---- RAM staging root ----
    staging     \* RAM_STAGING_ROOT, what is mounted on it, the InitRamStaging call

storeVars == <<stDoc, stDst, stTemps, stOp, stRead>>
syncVars  == <<basename, files, temps, CONFIG, PLAY_LIST, now, call, prevCall>>
swapVars  == <<dirs, VideoBeingPlayed, PlayerProcess, pc, loc>>
ramVars   == <<staging>>
vars      == <<storeVars, syncVars, swapVars, ramVars>>

(***************************************************************************)
(* JSON values.  One record shape for every value, so that any two values  *)
(* can be compared: t is "str", "num", "obj" or "arr"; a is the text of a  *)
(* string or number; kv is the ordered list of an object's members (k the  *)
(* key) or of an array's items (k empty).                                  *)
(***************************************************************************)
Str(s)    == [t |-> "str", a |-> s, kv |-> <<>>]
Num(s)    == [t |-> "num", a |-> s, kv |-> <<>>]
Obj(kv)   == [t |-> "obj", a |-> "", kv |-> kv]
KV(k, v)  == [k |-> k, v |-> v]
Arr(items) == [t |-> "arr", a |-> "", kv |-> [i \in 1..Len(items) |-> KV("", items[i])]]

\* The keys of the model's documents in Python's string order, which is the
\* order json.dump(..., sort_keys=True) writes them in.
KeyOrder ==
    << "LogLevel", "Media", "Mon", "OpenHours", "Players", "SchemaVersion",
       "Venue", "default", "dir_player", "entries", "name", "vid_player", "video" >>

RankOf ==
    [k \in {KeyOrder[i] : i \in 1..Len(KeyOrder)} |->
        CHOOSE i \in 1..Len(KeyOrder) : KeyOrder[i] = k]

\* sorted(d.items()) as json.dump does under sort_keys=True (keys are unique,
\* so the order of the result does not depend on the sorting method): each
\* member is inserted before the first member of a greater key.
RECURSIVE SortKV(_)
SortKV(kv) ==
    IF kv = <<>> THEN <<>>
    ELSE LET done == SortKV(Tail(kv))
             r    == RankOf[kv[1].k]
             n    == Cardinality({i \in 1..Len(done) : RankOf[done[i].k] < r})
         IN  SubSeq(done, 1, n) \o <<kv[1]>> \o SubSeq(done, n + 1, Len(done))

(***************************************************************************)
(* A file's text is the sequence of its JSON tokens (white space between   *)
(* tokens, which indent=2 adds, carries no meaning and is left out, except *)
(* the final newline AtomicWrite_json appends).                            *)
(***************************************************************************)
Tok(c, s) == [c |-> c, s |-> s]
NL        == Tok("nl", "")

\* json.dump(obj, f, sort_keys=sort)
RECURSIVE json_dump(_, _)
json_dump(v, sort) ==
    LET RECURSIVE Members(_)
        Members(kv) ==
            IF kv = <<>> THEN <<>>
            ELSE <<Tok("key", kv[1].k)>> \o json_dump(kv[1].v, sort) \o Members(Tail(kv))
        RECURSIVE Items(_)
        Items(kv) ==
            IF kv = <<>> THEN <<>>
            ELSE json_dump(kv[1].v, sort) \o Items(Tail(kv))
    IN  CASE v.t = "str" -> <<Tok("str", v.a)>>
          [] v.t = "num" -> <<Tok("num", v.a)>>
          [] v.t = "obj" -> <<Tok("{", "")>>
                              \o Members(IF sort THEN SortKV(v.kv) ELSE v.kv)
                              \o <<Tok("}", "")>>
          [] v.t = "arr" -> <<Tok("[", "")>> \o Items(v.kv) \o <<Tok("]", "")>>

\* OrderedDict(pairs): a repeated key keeps its first place and takes the last value.
PutKV(kv, k, v) ==
    IF \E i \in 1..Len(kv) : kv[i].k = k
    THEN [i \in 1..Len(kv) |-> IF kv[i].k = k THEN KV(k, v) ELSE kv[i]]
    ELSE Append(kv, KV(k, v))

ParseFail == [ok |-> FALSE, val |-> Str(""), rest |-> <<>>]

\* json.load(f, object_pairs_hook=OrderedDict): a recursive descent over the tokens.
RECURSIVE ParseValue(_)
RECURSIVE ParseMembers(_, _)
RECURSIVE ParseItems(_, _)
ParseValue(ts) ==
    IF ts = <<>> THEN ParseFail
    ELSE LET h == Head(ts) IN
         CASE h.c = "str" -> [ok |-> TRUE, val |-> Str(h.s), rest |-> Tail(ts)]
           [] h.c = "num" -> [ok |-> TRUE, val |-> Num(h.s), rest |-> Tail(ts)]
           [] h.c = "{"   -> ParseMembers(Tail(ts), <<>>)
           [] h.c = "["   -> ParseItems(Tail(ts), <<>>)
           [] OTHER       -> ParseFail

ParseMembers(ts, acc) ==
    IF ts = <<>> THEN ParseFail
    ELSE IF Head(ts).c = "}" THEN [ok |-> TRUE, val |-> Obj(acc), rest |-> Tail(ts)]
    ELSE IF Head(ts).c = "key"
         THEN LET r == ParseValue(Tail(ts)) IN
              IF r.ok THEN ParseMembers(r.rest, PutKV(acc, Head(ts).s, r.val))
              ELSE ParseFail
    ELSE ParseFail

ParseItems(ts, acc) ==
    IF ts = <<>> THEN ParseFail
    ELSE IF Head(ts).c = "]" THEN [ok |-> TRUE, val |-> Arr(acc), rest |-> Tail(ts)]
    ELSE LET r == ParseValue(ts) IN
         IF r.ok THEN ParseItems(r.rest, Append(acc, r.val)) ELSE ParseFail

\* json.load on a whole file: one value, then nothing but white space.
json_load(ts) ==
    LET r == ParseValue(ts) IN
    IF r.ok /\ \A i \in 1..Len(r.rest) : r.rest[i] = NL
    THEN [ok |-> TRUE, val |-> r.val]
    ELSE [ok |-> FALSE, val |-> Str("")]

(***************************************************************************)
(* Files.                                                                  *)
(***************************************************************************)
MissingMtime == -1

NoFile == [ex |-> FALSE, mtime |-> MissingMtime, data |-> <<>>]
File(t, data) == [ex |-> TRUE, mtime |-> t, data |-> data]

\* AdConfig.load_json_preserve_order: raises (ok = FALSE) when the file is
\* missing, is not JSON, or its root is not an object.
load_json_preserve_order(f) ==
    LET r == json_load(f.data) IN
    IF f.ex /\ r.ok /\ r.val.t = "obj"
    THEN [ok |-> TRUE, val |-> r.val]
    ELSE [ok |-> FALSE, val |-> Str("")]

\* SyncFiles._write_json_atomic(dst, obj) at time t, with the step that fails
\* (fault: "none", "create", "dump", "fsync", "replace").  tmp is bound only
\* after dump and fsync, so the finally clause's tmp.unlink() removes the
\* temporary file only when the replace failed; when dump or fsync raised, tmp
\* is unbound, the NameError is suppressed, and the file (delete=False) stays.
write_json_atomic(dst, nTemps, obj, fault, t) ==
    CASE fault = "create"  -> [ok |-> FALSE, dst |-> dst, temps |-> nTemps]
      [] fault = "dump"    -> [ok |-> FALSE, dst |-> dst, temps |-> nTemps + 1]
      [] fault = "fsync"   -> [ok |-> FALSE, dst |-> dst, temps |-> nTemps + 1]
      [] fault = "replace" -> [ok |-> FALSE, dst |-> dst, temps |-> nTemps]
      [] OTHER             -> [ok |-> TRUE, dst |-> File(t, json_dump(obj, TRUE)),
                               temps |-> nTemps]

\* AdConfig.AtomicWrite_json(path, data) at time t.  fault: "none", "mkdir",
\* "create" (mkstemp), "dump", "replace".  The finally clause removes the
\* temporary file if it exists; if that removal fails (rmFault) the clause
\* returns False, which also swallows the exception in flight.
\* ret: "True", "False" or "raise".
AtomicWrite_json(dst, nTemps, data, fault, rmFault, t) ==
    CASE fault \in {"mkdir", "create"} ->
            [ret |-> "raise", dst |-> dst, temps |-> nTemps]
      [] fault \in {"dump", "replace"} ->
            IF rmFault THEN [ret |-> "False", dst |-> dst, temps |-> nTemps + 1]
            ELSE [ret |-> "raise", dst |-> dst, temps |-> nTemps]
      [] OTHER ->
            [ret |-> "True", dst |-> File(t, json_dump(data, FALSE) \o <<NL>>),
             temps |-> nTemps]

dump_json_preserve_order(dst, nTemps, data, fault, rmFault, t) ==
    AtomicWrite_json(dst, nTemps, data, fault, rmFault, t)

(***************************************************************************)
(* The documents of the model.                                             *)
(***************************************************************************)
\* AdConfig.configDefaults, cut to one day and the two player selectors.
configDefaults ==
    Obj(<< KV("OpenHours", Obj(<<KV("Mon", Str("11:00-2:00"))>>)),
           KV("Players", Obj(<< KV("vid_player", Str("vlc")),
                                KV("dir_player", Str("feh")) >>)),
           KV("LogLevel", Str("INFO")) >>)

\* AdConfig.DefaultPlayList, cut to its first entry.
DefaultPlayList ==
    Obj(<< KV("Media", Obj(<<>>)),
           KV("Venue", Obj(<< KV("name", Str("Main")),
                              KV("entries", Obj(<<KV("default",
                                  Obj(<<KV("video", Str("DefaultAd.mp4"))>>))>>)) >>)),
           KV("SchemaVersion", Num("2")) >>)

\* Documents an editor puts in the cloud and local directories.
CloudDoc == Obj(<< KV("Players", Obj(<<KV("vid_player", Str("mpv"))>>)),
                   KV("LogLevel", Str("DEBUG")) >>)
LocalDoc == Obj(<< KV("LogLevel", Str("WARNING")) >>)
AltDoc   == Obj(<< KV("LogLevel", Str("ERROR")) >>)

\* A file cut short while being uploaded: not JSON.
Truncated == <<Tok("{", ""), Tok("key", "LogLevel")>>

(***************************************************************************)
(* The document store: one write of stDoc to stDst by either writer, with  *)
(* any one step failing, then one read.                                    *)
(***************************************************************************)
MaxKeys == 2

StoreKeys == {"OpenHours", "Players", "LogLevel"}

StoreVals ==
    { Str("INFO"), Num("2"), Obj(<<>>),
      Obj(<<KV("vid_player", Str("vlc")), KV("dir_player", Str("feh"))>>),
      Obj(<<KV("dir_player", Str("feh")), KV("vid_player", Str("vlc"))>>) }

\* Sequences of distinct keys, at most MaxKeys long.
KeySeqs ==
    UNION { { ks \in [1..n -> StoreKeys] : \A i, j \in 1..n : i # j => ks[i] # ks[j] }
            : n \in 0..MaxKeys }

\* Every ordered key-value tree over those keys and values.
StoreDocs ==
    UNION { { Obj([i \in 1..Len(ks) |-> KV(ks[i], f[i])]) : f \in [1..Len(ks) -> StoreVals] }
            : ks \in KeySeqs }

WjaFaults == {"none", "create", "dump", "fsync", "replace"}
AwjFaults == {"none", "mkdir", "create", "dump", "replace"}

StoreIdle == [pc |-> "idle", writer |-> "", fault |-> "none", rmFault |-> FALSE,
              ret |-> "", pre |-> NoFile]
NotRead   == [ok |-> FALSE, val |-> Str("")]

NoFiles == [cloud |-> NoFile, local |-> NoFile, last_good |-> NoFile,
            tmp |-> NoFile, lg_p |-> NoFile, lg_tmp |-> NoFile]

NoCall == [name |-> "", raised |-> FALSE, ret |-> FALSE, branch |-> "",
           written |-> FALSE, pre |-> NoFiles,
           preMem |-> Obj(<<>>), defaults |-> Obj(<<>>), faultFree |-> FALSE,
           quiet |-> FALSE]

(***************************************************************************)
(* Directories.  A path holds nothing, a plain file or a directory; the    *)
(* files of a directory are records [name, size, mtime, org], org telling  *)
(* whose content the file carries (shutil.copy2 keeps all four).           *)
(***************************************************************************)
Slide(n, sz, mt, org) == [name |-> n, size |-> sz, mtime |-> mt, org |-> org]
NoDir    == [kind |-> "none", files |-> {}]
NotADir  == [kind |-> "file", files |-> {}]
Dir(fs)  == [kind |-> "dir", files |-> fs]

\* The locals of SyncDir before a pass starts.  Some fields are history kept
\* for the properties: calls (the filesystem and player calls of lines 223-261
\* the pass has made, in order), pre (the live directory the pass found), failed
\* and at (the step that failed, the step the process was killed in), faulted
\* (a stat of the staging loop failed or the backup slot could not be cleared)
\* and prev (how the previous pass of this process ended: what it returned,
\* "failed" when a rename of its swap failed, "" when there was none).
NoPass ==
    [entry |-> "", currently_being_played |-> "", copied_from_cloud |-> FALSE,
     deleted_exists |-> FALSE, ok |-> TRUE, bPlay |-> FALSE, ret |-> "",
     pre |-> NoDir, staged |-> {}, failed |-> "", at |-> "", faulted |-> FALSE,
     prev |-> "", calls |-> <<>>]

\* RAM_STAGING_ROOT absent, nothing mounted, no call made.
NoStaging ==
    [root |-> "none", mounts |-> <<>>, mode |-> "", pc |-> "idle",
     raised |-> FALSE, attempts |-> 0, outcome |-> "", prev |-> "",
     pre |-> [root |-> "none", mounts |-> <<>>, mode |-> ""]]

ParkedRam == staging = NoStaging

\* The swap at rest, for the specifications that do not exercise it.
ParkedSwap ==
    /\ dirs = [base |-> TRUE, src |-> NoDir, dst |-> NoDir, ram |-> NoDir,
               sd |-> NoDir, old |-> NoDir]
    /\ VideoBeingPlayed = ""
    /\ PlayerProcess = "none"
    /\ pc = "idle"
    /\ loc = NoPass

ParkedSync ==
    /\ basename = "config.json"
    /\ files = NoFiles
    /\ temps = 0
    /\ CONFIG = configDefaults
    /\ PLAY_LIST = DefaultPlayList
    /\ now = 0
    /\ call = NoCall
    /\ prevCall = FALSE

StoreInit ==
    /\ stDoc \in StoreDocs
    /\ stDst \in {NoFile, File(0, json_dump(AltDoc, FALSE))}
    /\ stTemps = 0
    /\ stOp = StoreIdle
    /\ stRead = NotRead
    /\ ParkedSync
    /\ ParkedSwap
    /\ ParkedRam

\* _write_json_atomic(stDst, stDoc)
StoreWriteLastGood ==
    \E fault \in WjaFaults :
        LET r == write_json_atomic(stDst, stTemps, stDoc, fault, now) IN
        /\ stOp.pc = "idle"
        /\ stDst' = r.dst
        /\ stTemps' = r.temps
        /\ stOp' = [pc |-> "written", writer |-> "_write_json_atomic", fault |-> fault,
                    rmFault |-> FALSE, ret |-> IF r.ok THEN "True" ELSE "False",
                    pre |-> stDst]
        /\ UNCHANGED <<stDoc, stRead, syncVars, swapVars, ramVars>>

\* AtomicWrite_json(stDst, stDoc)
StoreAtomicWrite ==
    \E fault \in AwjFaults, rmFault \in BOOLEAN :
        LET r == AtomicWrite_json(stDst, stTemps, stDoc, fault, rmFault, now) IN
        /\ stOp.pc = "idle"
        /\ rmFault => fault \in {"dump", "replace"}
        /\ stDst' = r.dst
        /\ stTemps' = r.temps
        /\ stOp' = [pc |-> "written", writer |-> "AtomicWrite_json", fault |-> fault,
                    rmFault |-> rmFault, ret |-> r.ret, pre |-> stDst]
        /\ UNCHANGED <<stDoc, stRead, syncVars, swapVars, ramVars>>

\* load_json_preserve_order(stDst)
StoreRead ==
    /\ stOp.pc = "written"
    /\ stRead' = load_json_preserve_order(stDst)
    /\ stOp' = [stOp EXCEPT !.pc = "read"]
    /\ UNCHANGED <<stDoc, stDst, stTemps, syncVars, swapVars, ramVars>>

StoreNext == StoreWriteLastGood \/ StoreAtomicWrite \/ StoreRead

SpecStore == StoreInit /\ [][StoreNext]_vars

(***************************************************************************)
(* Three-way reconciliation.                                               *)
(***************************************************************************)
\* SyncFiles._mtime: the modification time, or -1.0 for a file that is not there.
mtime(f) == IF f.ex THEN f.mtime ELSE MissingMtime

\* AdConfig.defaults_to_config: a JSON round trip of the defaults.
defaults_to_config(defaults) == json_load(json_dump(defaults, FALSE)).val

NoWriteFaults == [lg |-> "none", def |-> "none", rm |-> FALSE]

\* Neither seeding write of LoadConfig can create its temporary file.
FailedSeed == [lg |-> "create", def |-> "create", rm |-> FALSE]

\* AdConfig.LoadConfig(cFile, defaults) on the files fs, cFile being fs[p] and
\* Lastgood_path(cFile) being fs[lg].  It returns the pair (document, source);
\* wf names the fault of the write in step 2 (wf.lg) and in step 3 (wf.def).
\* A write that raises in step 2 is swallowed by that step's except clause and
\* step 3 runs; one that raises in step 3 leaves LoadConfig (raised).
LoadConfig(fs, nTemps, p, lg, defaults, wf, t) ==
    LET cur  == load_json_preserve_order(fs[p])
        lgd  == load_json_preserve_order(fs[lg])
        w2   == dump_json_preserve_order(fs[p], nTemps, lgd.val, wf.lg, wf.rm, t)
        seed2 == lgd.ok /\ ~fs[p].ex
        fs2  == IF seed2 THEN [fs EXCEPT ![p] = w2.dst] ELSE fs
        n2   == IF seed2 THEN w2.temps ELSE nTemps
        cfg_def == defaults_to_config(defaults)
        w3   == dump_json_preserve_order(fs2[p], n2, cfg_def, wf.def, wf.rm, t)
    IN  IF cur.ok
        THEN [raised |-> FALSE, cfg |-> cur.val, src |-> "current",
              fs |-> fs, temps |-> nTemps]
        ELSE IF lgd.ok /\ ~(seed2 /\ w2.ret = "raise")
        THEN [raised |-> FALSE, cfg |-> lgd.val, src |-> "lastgood",
              fs |-> fs2, temps |-> n2]
        ELSE IF ~fs2[p].ex
        THEN [raised |-> w3.ret = "raise", cfg |-> cfg_def, src |-> "defaults",
              fs |-> [fs2 EXCEPT ![p] = w3.dst], temps |-> w3.temps]
        ELSE [raised |-> FALSE, cfg |-> cfg_def, src |-> "defaults",
              fs |-> fs2, temps |-> n2]

\* json.dump of the Python tuple LoadConfig returns: a two-item JSON array.
TupleJson(lc) == Arr(<<lc.cfg, Str(lc.src)>>)

\* dict.update(new) on the dict just cleared.  A mapping is copied in its own
\* order.  Any other object is iterated as a sequence of pairs: an item that is
\* a dict of exactly two keys is taken as the pair (first key, second key), and
\* the first item of any other length raises (every string this program puts
\* in such a tuple, "current", "lastgood", "defaults", is 7 or 8 long); what
\* was inserted before the raise stays.
RECURSIVE UpdatePairs(_, _)
UpdatePairs(items, acc) ==
    IF items = <<>> THEN acc
    ELSE LET it == items[1].v IN
         IF it.t = "obj" /\ Len(it.kv) = 2
         THEN UpdatePairs(Tail(items), PutKV(acc, it.kv[1].k, Str(it.kv[2].k)))
         ELSE acc

dict_update(new) ==
    CASE new.t = "obj" -> Obj(new.kv)
      [] new.t = "arr" -> Obj(UpdatePairs(new.kv, <<>>))
      [] OTHER         -> Obj(<<>>)

\* The document applied whether or not last-good was written.  Not the code;
\* the property of a failed last-good write must tell it apart.
ApplyThenPersist(dst, nTemps, mem, obj, alias, fault, t) ==
    LET w == write_json_atomic(dst, nTemps, obj, fault, t) IN
    [ok |-> w.ok, dst |-> w.dst, temps |-> w.temps,
     mem |-> IF alias THEN Obj(<<>>) ELSE dict_update(obj)]

\* SyncFiles._persist_last_good_and_apply(dst, obj): mem is the in-memory
\* document dst stands for (cfg.CONFIG or cfg.PLAY_LIST).  alias says that obj
\* is that very object, as it is when SyncConfigs passes the live CONFIG as
\* defaults: cur.clear() then empties obj too and cur.update(new) copies
\* nothing.  An exception of the update is caught and True is returned.
persist_last_good_and_apply(dst, nTemps, mem, obj, alias, fault, t) ==
    LET w == write_json_atomic(dst, nTemps, obj, fault, t) IN
    IF ~w.ok
    THEN [ok |-> FALSE, dst |-> w.dst, temps |-> w.temps, mem |-> mem]
    ELSE [ok |-> TRUE, dst |-> w.dst, temps |-> w.temps,
          mem |-> IF alias THEN Obj(<<>>) ELSE dict_update(obj)]

\* A winner chosen with >= in place of >: ties go to the cloud, then to
\* last-good.  Not the code; the reconciliation properties must tell it apart.
WinnerOnTies(cloud_mtime, last_good_mtime, local_mtime) ==
    IF cloud_mtime >= last_good_mtime /\ cloud_mtime >= local_mtime THEN "cloud"
    ELSE IF last_good_mtime >= cloud_mtime /\ last_good_mtime >= local_mtime THEN "last_good"
    ELSE IF local_mtime >= cloud_mtime /\ local_mtime >= last_good_mtime THEN "local"
    ELSE "none"

\* The newer of the cloud and the local file, last-good not consulted.  Not
\* the code; the property of a seeded last-good must tell it apart.
WinnerOfTwo(cloud_mtime, last_good_mtime, local_mtime) ==
    IF cloud_mtime > local_mtime THEN "cloud"
    ELSE IF local_mtime > cloud_mtime THEN "local"
    ELSE "none"

\* The strict winner of lines 360-369.
Winner(cloud_mtime, last_good_mtime, local_mtime) ==
    IF cloud_mtime > last_good_mtime /\ cloud_mtime > local_mtime THEN "cloud"
    ELSE IF last_good_mtime > cloud_mtime /\ last_good_mtime > local_mtime THEN "last_good"
    ELSE IF local_mtime > cloud_mtime /\ local_mtime > last_good_mtime THEN "local"
    ELSE "none"

\* The faults of one call: mkdir (line 343) fails, the copy of line 374 fails,
\* the write of _write_json_atomic fails at the named step, or load: the local
\* file is removed between the stat of line 358 and LoadConfig (line 394) and
\* the write by which LoadConfig seeds it again cannot create its file.
NoFaults == [mkdir |-> FALSE, copy |-> FALSE, write |-> "none", load |-> FALSE]

\* An exception leaving the body reaches the caller.  Not the code; the
\* property of sync_common's return must tell it apart.
Propagate(r) == r

\* The except clause of lines 402-405: an exception leaving the body is logged
\* and the call returns False.
catch_all(r) == IF r.raised THEN [r EXCEPT !.raised = FALSE, !.ret = FALSE] ELSE r

\* The body of SyncFiles.sync_common(basename, defaults) (lines 334-400) on
\* the files fs, at time t, with the faults flt of its filesystem steps.  The
\* result: whether an exception left the body, what it returns otherwise, the
\* files, the temporary files left, the in-memory document, the branch, and
\* whether _write_json_atomic returned True for the last-good file.
sync_common_body(fs, nTemps, mem, defaults, alias, flt, t) ==
    LET same(br) == [raised |-> FALSE, ret |-> FALSE, fs |-> fs, temps |-> nTemps,
                     mem |-> mem, branch |-> br, written |-> FALSE]
        applied(lc, br) ==
            LET fs1 == [lc.fs EXCEPT !.tmp = NoFile]
                r == persist_last_good_and_apply(fs1.last_good, lc.temps, mem,
                                                 TupleJson(lc), FALSE, flt.write, t)
            IN  IF lc.raised
                THEN [raised |-> TRUE, ret |-> FALSE, fs |-> fs1, temps |-> lc.temps,
                      mem |-> mem, branch |-> "crashed", written |-> FALSE]
                ELSE [raised |-> FALSE, ret |-> r.ok,
                      fs |-> [fs1 EXCEPT !.last_good = r.dst],
                      temps |-> r.temps, mem |-> r.mem, branch |-> br,
                      written |-> r.ok]
        winner == Winner(mtime(fs.cloud), mtime(fs.last_good), mtime(fs.local))
    IN  IF flt.mkdir THEN same("mkdir")
        ELSE IF mtime(fs.last_good) < 0
        THEN LET r == persist_last_good_and_apply(fs.last_good, nTemps, mem,
                                                  defaults, alias, flt.write, t)
             IN  [raised |-> FALSE, ret |-> FALSE,
                  fs |-> [fs EXCEPT !.last_good = r.dst],
                  temps |-> r.temps, mem |-> r.mem, branch |-> "seed",
                  written |-> r.ok]
        ELSE CASE winner = "cloud" ->
                    IF flt.copy THEN same("copy")
                    ELSE applied(LoadConfig([fs EXCEPT !.tmp = fs.cloud], nTemps,
                                            "tmp", "lg_tmp", defaults, NoWriteFaults, t),
                                 "cloud")
               [] winner = "local" ->
                    IF flt.load
                    THEN applied(LoadConfig([fs EXCEPT !.local = NoFile], nTemps,
                                            "local", "lg_p", defaults,
                                            FailedSeed, t),
                                 "local")
                    ELSE applied(LoadConfig(fs, nTemps, "local", "lg_p", defaults,
                                            NoWriteFaults, t),
                                 "local")
               [] OTHER -> same(winner)

\* SyncFiles.sync_common(basename, defaults): the body, inside the try block of
\* line 333 whose except clause catches whatever leaves it.
sync_common(fs, nTemps, mem, defaults, alias, flt, t) ==
    catch_all(sync_common_body(fs, nTemps, mem, defaults, alias, flt, t))

(***************************************************************************)
(* The reconciliation of one document, basename, as SyncConfigs calls it,  *)
(* between edits of the cloud and local files and ticks of the clock.      *)
(***************************************************************************)
MaxTime  == 2
MaxTemps == 1

Times == 0..MaxTime

\* A file that parses, but whose root is not an object.
NotAnObject == json_dump(Arr(<<Str("INFO")>>), FALSE)

CloudFiles == { File(t, d) : t \in Times, d \in {json_dump(CloudDoc, FALSE), Truncated} }
LocalFiles == { File(t, d) : t \in Times,
                             d \in {json_dump(LocalDoc, FALSE) \o <<NL>>, NotAnObject} }

\* At most one step of a call fails.
SyncFaults ==
    {NoFaults, [NoFaults EXCEPT !.mkdir = TRUE], [NoFaults EXCEPT !.copy = TRUE],
     [NoFaults EXCEPT !.load = TRUE]}
    \cup { [NoFaults EXCEPT !.write = w] : w \in WjaFaults }

ParkedStore ==
    /\ stDoc = Obj(<<>>)
    /\ stDst = NoFile
    /\ stTemps = 0
    /\ stOp = StoreIdle
    /\ stRead = NotRead

SyncInit ==
    /\ basename \in {"config.json", "PlayList.json"}
    /\ \E c \in CloudFiles \cup {NoFile}, l \in LocalFiles \cup {NoFile},
          g \in {NoFile, File(0, json_dump(AltDoc, TRUE))},
          a \in {NoFile, File(0, json_dump(AltDoc, FALSE) \o <<NL>>)} :
            files = [cloud |-> c, local |-> l, last_good |-> g,
                     tmp |-> NoFile, lg_p |-> a, lg_tmp |-> NoFile]
    /\ temps = 0
    /\ IF basename = "config.json"
       THEN CONFIG = configDefaults /\ PLAY_LIST = DefaultPlayList
       ELSE CONFIG = configDefaults /\ PLAY_LIST \in {DefaultPlayList, LocalDoc}
    /\ now = 0
    /\ call = NoCall
    /\ prevCall = FALSE
    /\ ParkedStore
    /\ ParkedSwap
    /\ ParkedRam

\* One call SyncConfigs makes of sync_common for basename: "config.json" with the live
\* CONFIG object as defaults, "PlayList.json" with DefaultPlayList.
SyncCommonCall ==
    \E flt \in SyncFaults :
    \E isCfg \in {basename = "config.json"} :
    \E mem \in {IF isCfg THEN CONFIG ELSE PLAY_LIST} :
    \E defaults \in {IF isCfg THEN CONFIG ELSE DefaultPlayList} :
    \E r \in {sync_common(files, temps, mem, defaults, isCfg, flt, now)} :
        /\ call.name = ""
        /\ r.temps <= MaxTemps
        /\ files' = r.fs
        /\ temps' = r.temps
        /\ CONFIG' = (IF isCfg THEN r.mem ELSE CONFIG)
        /\ PLAY_LIST' = (IF isCfg THEN PLAY_LIST ELSE r.mem)
        /\ call' = [name |-> basename, raised |-> r.raised, ret |-> r.ret,
                    branch |-> r.branch, written |-> r.written,
                    pre |-> files, preMem |-> mem, defaults |-> defaults,
                    faultFree |-> (flt = NoFaults), quiet |-> prevCall]
        /\ UNCHANGED <<basename, now, prevCall, storeVars, swapVars, ramVars>>

\* The call has returned; the driver goes on.
Return ==
    /\ call.name # ""
    /\ call' = NoCall
    /\ prevCall' = call.faultFree
    /\ UNCHANGED <<basename, files, temps, CONFIG, PLAY_LIST, now, storeVars, swapVars, ramVars>>

\* Somebody writes, replaces or removes the cloud copy; the modification time
\* is whatever the writer's clock or the copy tool gave it.
EditCloud ==
    \E f \in CloudFiles \cup {NoFile} :
        /\ call.name = ""
        /\ f # files.cloud
        /\ files' = [files EXCEPT !.cloud = f]
        /\ prevCall' = FALSE
        /\ UNCHANGED <<basename, temps, CONFIG, PLAY_LIST, now, call, storeVars, swapVars, ramVars>>

EditLocal ==
    \E f \in LocalFiles \cup {NoFile} :
        /\ call.name = ""
        /\ f # files.local
        /\ files' = [files EXCEPT !.local = f]
        /\ prevCall' = FALSE
        /\ UNCHANGED <<basename, temps, CONFIG, PLAY_LIST, now, call, storeVars, swapVars, ramVars>>

Tick ==
    /\ call.name = ""
    /\ now < MaxTime
    /\ now' = now + 1
    /\ UNCHANGED <<basename, files, temps, CONFIG, PLAY_LIST, call, prevCall, storeVars, swapVars, ramVars>>

SyncNext == SyncCommonCall \/ Return \/ EditCloud \/ EditLocal \/ Tick

SpecSync == SyncInit /\ [][SyncNext]_vars

(***************************************************************************)
(* One pass of SyncConfigs: its two calls of sync_common, in their order   *)
(* (specification SpecConfigs).  The files of basename are those of        *)
(* SpecSync; the other document is at rest, its last-good the newest copy. *)
(***************************************************************************)
\* The playlist reconciled before the configuration.  Not the code; the
\* property of the order must tell it apart.
PlayListFirst == <<"PlayList.json", "config.json">>

\* The documents in the order SyncConfigs reconciles them (lines 420, 423).
Documents == <<"config.json", "PlayList.json">>

QuietFiles == [NoFiles EXCEPT !.last_good = File(0, json_dump(AltDoc, TRUE))]

\* The call sync_common(doc, defaults) of SyncConfigs.  ConfigChange, called
\* when the call for config.json returns True, sets the logging level from
\* CONFIG and never raises; it has no state here.
SyncConfigsCall(doc) ==
    \E flt \in SyncFaults :
    \E isCfg \in {doc = "config.json"} :
    \E mem \in {IF isCfg THEN CONFIG ELSE PLAY_LIST} :
    \E defaults \in {IF isCfg THEN CONFIG ELSE DefaultPlayList} :
    \E fs \in {IF doc = basename THEN files ELSE QuietFiles} :
    \E r \in {sync_common(fs, temps, mem, defaults, isCfg, flt, now)} :
        /\ r.temps <= MaxTemps
        /\ files' = (IF doc = basename THEN r.fs ELSE files)
        /\ temps' = r.temps
        /\ CONFIG' = (IF isCfg THEN r.mem ELSE CONFIG)
        /\ PLAY_LIST' = (IF isCfg THEN PLAY_LIST ELSE r.mem)
        /\ call' = [name |-> doc, raised |-> r.raised, ret |-> r.ret,
                    branch |-> r.branch, written |-> r.written,
                    pre |-> fs, preMem |-> mem, defaults |-> defaults,
                    faultFree |-> (flt = NoFaults), quiet |-> FALSE]
        /\ UNCHANGED <<basename, now, prevCall, storeVars, swapVars, ramVars>>

\* Line 420.
SyncConfigsFirst == call.name = "" /\ SyncConfigsCall(Documents[1])

\* Line 423.
SyncConfigsSecond == call.name = Documents[1] /\ SyncConfigsCall(Documents[2])

\* Line 425: SyncConfigs returns to SyncFiles.
SyncConfigsReturn ==
    /\ call.name = Documents[2]
    /\ call' = NoCall
    /\ UNCHANGED <<basename, files, temps, CONFIG, PLAY_LIST, now, prevCall,
                   storeVars, swapVars, ramVars>>

ConfigsNext ==
    \/ SyncConfigsFirst \/ SyncConfigsSecond \/ SyncConfigsReturn
    \/ EditCloud \/ EditLocal \/ Tick

SpecConfigs == SyncInit /\ [][ConfigsNext]_vars

(***************************************************************************)
(* LoadConfig called on its own, as AdConfig does when it is imported and  *)
(* AdProcessor.sync_files does on every pass (specification SpecLoad).     *)
(* cFile is files.local and Lastgood_path(cFile) is files.lg_p.            *)
(***************************************************************************)
\* The faults of the two seeding writes, and of the removal of their
\* temporary file.
LoadFaults == [lg : AwjFaults, def : AwjFaults, rm : BOOLEAN]

LoadInit ==
    /\ basename = "config.json"
    /\ \E l \in LocalFiles \cup {NoFile},
          a \in {NoFile, File(0, json_dump(AltDoc, FALSE) \o <<NL>>),
                 File(0, Truncated)} :
            files = [NoFiles EXCEPT !.local = l, !.lg_p = a]
    /\ temps = 0
    /\ CONFIG = configDefaults
    /\ PLAY_LIST = DefaultPlayList
    /\ now = 0
    /\ call = NoCall
    /\ prevCall = FALSE
    /\ ParkedStore
    /\ ParkedSwap
    /\ ParkedRam

\* LoadConfig(cFile, defaults) called with the defaults of either document.
LoadConfigCall ==
    \E wf \in LoadFaults :
    \E defaults \in {configDefaults, DefaultPlayList} :
    \E r \in {LoadConfig(files, temps, "local", "lg_p", defaults, wf, now)} :
        /\ call.name = ""
        /\ r.temps <= MaxTemps
        /\ files' = r.fs
        /\ temps' = r.temps
        /\ call' = [name |-> "LoadConfig", raised |-> r.raised, cfg |-> r.cfg,
                    src |-> r.src, pre |-> files, defaults |-> defaults]
        /\ UNCHANGED <<basename, CONFIG, PLAY_LIST, now, prevCall, storeVars,
                       swapVars, ramVars>>

\* The caller has the pair (or the exception); it goes on.
LoadReturn ==
    /\ call.name = "LoadConfig"
    /\ call' = NoCall
    /\ UNCHANGED <<basename, files, temps, CONFIG, PLAY_LIST, now, prevCall,
                   storeVars, swapVars, ramVars>>

LoadNext == LoadConfigCall \/ LoadReturn \/ EditLocal \/ Tick

SpecLoad == LoadInit /\ [][LoadNext]_vars

(***************************************************************************)
(* The player (Player.py), as far as SyncDir drives it.                    *)
(***************************************************************************)
GetCurrentlyPlaying(vbp) == vbp

\* StopPlayer: whatever it finds (nothing, an exited child, a running child
\* it kills), no process is tracked afterwards.  VideoBeingPlayed is not
\* touched.
StopPlayer(proc) ==
    IF proc = "none" THEN "none"
    ELSE IF proc = "exited" THEN "none"
    ELSE "none"

\* PlayVideo launching the new child without a look at the one it tracks.
LaunchOverRunning(proc, vbp, target, configured, launched) ==
    IF ~configured
    THEN [ret |-> FALSE, proc |-> proc, vbp |-> vbp, calls |-> <<>>]
    ELSE IF launched
         THEN [ret |-> TRUE, proc |-> "running", vbp |-> target,
               calls |-> <<"handler()">>]
         ELSE [ret |-> FALSE, proc |-> "none", vbp |-> "",
               calls |-> <<"handler()">>]

\* PlayVideo(target).  configured: CONFIG.Players names a player with a
\* configuration and a handler; launched: the handler started the child.
\* calls: what PlayVideo called, in order.
PlayVideo(proc, vbp, target, configured, launched) ==
    IF ~configured
    THEN [ret |-> FALSE, proc |-> proc, vbp |-> vbp, calls |-> <<>>]
    ELSE \* lines 87-90 stop a running player and reset VideoBeingPlayed; the
         \* launch (lines 93-100) then sets both globals whatever they were.
         LET stop == IF proc = "running" THEN <<"StopPlayer()">> ELSE <<>>
         IN  IF launched
             THEN [ret |-> TRUE, proc |-> "running", vbp |-> target,
                   calls |-> stop \o <<"handler()">>]
             ELSE [ret |-> FALSE, proc |-> "none", vbp |-> "",
                   calls |-> stop \o <<"handler()">>]

(***************************************************************************)
(* The slideshow directory swap (SyncFiles.SyncDir), step by step.         *)
(***************************************************************************)
Tolerance  == 1      \* seconds within which two mtimes count as equal
CloudMtime == 2      \* the mtime of the cloud files
MaxMtime   == 4      \* live files carry mtimes 0..MaxMtime
MaxSize    == 2      \* files have sizes 1..MaxSize

SlideNames == {"a.jpg", "b.jpg"}
LiveDir    == "slides"              \* str(dst_dir) of the entry "slides/"
Entries    == {"slides/", "DefaultAd.mp4"}

\* The working directory of the process: the directory the service is
\* installed in, or the live directory when it was started from there.
AppDir == "AdProcess"
Cwds   == {AppDir, LiveDir}

\* Path(p).resolve(): an absolute path stays what it is; Path("") is the
\* relative path "." and resolves to the working directory.
resolve(p, cwd) == IF p = "" THEN cwd ELSE p

Abs(x) == IF x < 0 THEN -x ELSE x

\* name.endswith("/"), for the entries of the model.
IsDirEntry(entry) == entry = "slides/"

Named(fs, n) == {f \in fs : f.name = n}

\* The RAM directory made fresh before the preconditions are looked at.  Not
\* the code; the property of the failed preconditions must tell it apart.
RamDirFirst(d, flt) ==
    [ret  |-> IF d.src.kind = "none" \/ ~d.base \/ d.dst.kind = "file"
              THEN "False" ELSE "",
     dirs |-> [d EXCEPT !.ram = Dir({})]]

\* Lines 119-146: the preconditions, the creation of the live directory and
\* of the backup slot, and the fresh RAM directory.
SyncDirEnter(d, flt) ==
    IF d.src.kind = "none" THEN [ret |-> "False", dirs |-> d]
    ELSE IF ~d.base THEN [ret |-> "False", dirs |-> d]
    ELSE IF d.dst.kind = "file" THEN [ret |-> "False", dirs |-> d]
    ELSE IF d.dst.kind = "none" /\ flt = "mkdir_dst"
         THEN [ret |-> "raise", dirs |-> d]
    ELSE LET d1 == IF d.dst.kind = "none" THEN [d EXCEPT !.dst = Dir({})] ELSE d
         IN  IF d1.old.kind = "file" THEN [ret |-> "False", dirs |-> d1]
             ELSE IF d1.old.kind = "none" /\ flt = "mkdir_old"
                  THEN [ret |-> "raise", dirs |-> d1]
             ELSE LET d2 == IF d1.old.kind = "none"
                            THEN [d1 EXCEPT !.old = Dir({})] ELSE d1
                  IN  IF flt = "mkdir_ram"
                      THEN [ret |-> "raise", dirs |-> [d2 EXCEPT !.ram = NoDir]]
                      ELSE [ret |-> "", dirs |-> [d2 EXCEPT !.ram = Dir({})]]

\* Lines 152-161: the cloud files the loop handles (one whose stat fails is
\* skipped).
Listed(src, flt) ==
    {cf \in src.files : ~(flt.kind = "cstat" /\ flt.name = cf.name)}

\* Lines 163-189: does the loop take the cloud copy of cf?
TakesCloud(cf, live, flt) ==
    LET lfs == Named(live, cf.name)
    IN  IF lfs = {} THEN TRUE
        ELSE LET lst == CHOOSE f \in lfs : TRUE
             IN  IF flt.kind = "lstat" /\ flt.name = cf.name THEN TRUE
                 ELSE IF lst.size = cf.size
                         /\ Abs(lst.mtime - cf.mtime) <= Tolerance THEN FALSE
                 ELSE IF lst.mtime > cf.mtime + Tolerance THEN FALSE
                 ELSE TRUE

StagedFile(cf, live, flt) ==
    IF TakesCloud(cf, live, flt) THEN cf
    ELSE CHOOSE f \in Named(live, cf.name) : TRUE

\* A stat of the staging loop failed: that of a cloud file (line 158), or
\* that of its live namesake (line 165).
StatFailed(d, flt) ==
    \/ flt.kind = "cstat" /\ Named(d.src.files, flt.name) # {}
    \/ /\ flt.kind = "lstat"
       /\ Named(d.src.files, flt.name) # {}
       /\ Named(d.dst.files, flt.name) # {}

\* Lines 192-199.
DeletedExists(d) ==
    LET cloud_names == {cf.name : cf \in d.src.files}
    IN  /\ d.dst.kind = "dir"
        /\ \E lf \in d.dst.files : lf.name \notin cloud_names

EnterFaults == {"none", "mkdir_dst", "mkdir_old", "mkdir_ram"}
StageFaults ==
    {[kind |-> "none", name |-> ""]}
        \cup [kind : {"cstat", "lstat", "copy"}, name : SlideNames]
SdFaults == {"none", "mkdir", "copy"}
SwapSteps == {"stage", "sdcopy", "preflight", "rename1", "rename2", "finally"}

ParkedDocs == ParkedStore /\ ParkedSync /\ ParkedRam

\* The cloud directory: a.jpg of any size and b.jpg, each there or not.
CloudSets ==
    {a \cup b : a \in {{}} \cup {{Slide("a.jpg", sz, CloudMtime, "cloud")} : sz \in 1..MaxSize},
                b \in {{}, {Slide("b.jpg", 1, CloudMtime, "cloud")}}}

\* The live directory: a.jpg of any size and age, b.jpg as the cloud has it.
LiveSets ==
    {a \cup b : a \in {{}} \cup {{Slide("a.jpg", sz, mt, "local")} :
                                    sz \in 1..MaxSize, mt \in 0..MaxMtime},
                b \in {{}, {Slide("b.jpg", 1, CloudMtime, "cloud")}}}

SwapInit ==
    /\ ParkedDocs
    /\ \E base \in BOOLEAN :
       \E src \in {NoDir} \cup {Dir(fs) : fs \in CloudSets} :
       \E dst \in {NoDir, NotADir} \cup {Dir(fs) : fs \in LiveSets} :
       \E old \in {NoDir, NotADir} :
           /\ base \/ (dst = NoDir /\ old = NoDir)
           /\ dirs = [base |-> base, src |-> src, dst |-> dst, ram |-> NoDir,
                      sd |-> NoDir, old |-> old]
    /\ \E p \in {<<"", "none">>, <<LiveDir, "running">>, <<LiveDir, "exited">>,
                 <<"DefaultAd.mp4", "running">>} :
           /\ VideoBeingPlayed = p[1]
           /\ PlayerProcess = p[2]
    /\ pc = "idle"
    /\ loc = NoPass

\* Lines 72-146.
SyncDirBegin ==
    \E entry \in Entries :
    \E flt \in EnterFaults :
    \E r \in {IF IsDirEntry(entry) THEN SyncDirEnter(dirs, flt)
              ELSE [ret |-> "False", dirs |-> dirs]} :
        /\ pc = "idle"
        /\ dirs' = r.dirs
        /\ loc' = [NoPass EXCEPT !.entry = entry,
                     !.currently_being_played = GetCurrentlyPlaying(VideoBeingPlayed),
                     !.ret = r.ret, !.pre = r.dirs.dst, !.prev = loc.prev]
        /\ pc' = (IF r.ret = "" THEN "stage" ELSE "done")
        /\ UNCHANGED <<VideoBeingPlayed, PlayerProcess, storeVars, syncVars, ramVars>>

\* Lines 151-208: build the RAM set; leave when nothing changed.
SyncDirStage ==
    \E flt \in StageFaults :
    \E listed \in {Listed(dirs.src, flt)} :
    \E staged \in {{StagedFile(cf, dirs.dst.files, flt) : cf \in listed}} :
    \E copied \in {\E cf \in listed : TakesCloud(cf, dirs.dst.files, flt)} :
    \E deleted \in {DeletedExists(dirs)} :
        /\ pc = "stage"
        /\ IF flt.kind = "copy" /\ Named(listed, flt.name) # {}
           THEN \E partial \in SUBSET {f \in staged : f.name # flt.name} :
                    /\ dirs' = [dirs EXCEPT !.ram = Dir(partial)]
                    /\ loc' = [loc EXCEPT !.ret = "raise"]
                    /\ pc' = "done"
           ELSE IF ~copied /\ ~deleted
           THEN /\ dirs' = [dirs EXCEPT !.ram = NoDir]
                /\ loc' = [loc EXCEPT !.ret = "False",
                                      !.staged = staged,
                                      !.faulted = StatFailed(dirs, flt)]
                /\ pc' = "done"
           ELSE /\ dirs' = [dirs EXCEPT !.ram = Dir(staged)]
                /\ loc' = [loc EXCEPT !.copied_from_cloud = copied,
                                      !.deleted_exists = deleted,
                                      !.staged = staged,
                                      !.faulted = StatFailed(dirs, flt)]
                /\ pc' = "sdcopy"
        /\ UNCHANGED <<VideoBeingPlayed, PlayerProcess, storeVars, syncVars, ramVars>>

\* Lines 211-217: copy the RAM set to the scratch directory on the SD card.
SyncDirCopyToSd ==
    \E flt \in SdFaults :
        /\ pc = "sdcopy"
        /\ IF flt = "mkdir"
           THEN /\ dirs' = [dirs EXCEPT !.sd = NoDir]
                /\ loc' = [loc EXCEPT !.ret = "raise"]
                /\ pc' = "done"
           ELSE IF flt = "copy" /\ dirs.ram.files # {}
           THEN \E partial \in (SUBSET dirs.ram.files) \ {dirs.ram.files} :
                    /\ dirs' = [dirs EXCEPT !.sd = Dir(partial)]
                    /\ loc' = [loc EXCEPT !.ret = "raise"]
                    /\ pc' = "done"
           ELSE /\ dirs' = [dirs EXCEPT !.sd = Dir(dirs.ram.files)]
                /\ pc' = "preflight"
                /\ UNCHANGED loc
        /\ UNCHANGED <<VideoBeingPlayed, PlayerProcess, storeVars, syncVars, ramVars>>

\* The calls of lines 223-240, in the order of the code.
preflight_calls(bPlay) ==
    <<"rmtree(old_dir)", "rmtree(old_dir)">>
        \o (IF bPlay THEN <<"StopPlayer()">> ELSE <<>>)

\* Lines 223-240: clear the backup slot (rmtree with ignore_errors reports
\* nothing when it fails), decide bPlay, stop the player.
SyncDirPreflight ==
    \E cleared \in BOOLEAN :
    \E cwd \in Cwds :
    \E bPlay \in {resolve(loc.currently_being_played, cwd) = resolve(LiveDir, cwd)} :
        /\ pc = "preflight"
        /\ dirs' = (IF cleared THEN [dirs EXCEPT !.old = NoDir] ELSE dirs)
        /\ loc' = [loc EXCEPT !.ok = TRUE, !.bPlay = bPlay, !.pre = dirs.dst,
                              !.faulted = loc.faulted \/ ~cleared,
                              !.calls = preflight_calls(bPlay)]
        /\ PlayerProcess' = (IF bPlay THEN StopPlayer(PlayerProcess)
                             ELSE PlayerProcess)
        /\ pc' = "rename1"
        /\ UNCHANGED <<VideoBeingPlayed, storeVars, syncVars, ramVars>>

\* Line 243: dst_dir.replace(old_dir).  It cannot succeed onto a plain file
\* or a directory that still has content.
SyncDirRenameLive ==
    \E fail \in BOOLEAN :
    \E blocked \in {dirs.old.kind = "file"
                    \/ (dirs.old.kind = "dir" /\ dirs.old.files # {})} :
        /\ pc = "rename1"
        /\ IF fail \/ blocked
           THEN /\ loc' = [loc EXCEPT !.ok = FALSE, !.failed = "rename1",
                                      !.calls = Append(@, "dst_dir.replace(old_dir)")]
                /\ pc' = "finally"
                /\ UNCHANGED dirs
           ELSE /\ dirs' = [dirs EXCEPT !.old = dirs.dst, !.dst = NoDir]
                /\ loc' = [loc EXCEPT !.calls = Append(@, "dst_dir.replace(old_dir)")]
                /\ pc' = "rename2"
        /\ UNCHANGED <<VideoBeingPlayed, PlayerProcess, storeVars, syncVars, ramVars>>

\* Line 244: sd_tmp_dir.replace(dst_dir).
SyncDirRenameTmp ==
    \E fail \in BOOLEAN :
        /\ pc = "rename2"
        /\ IF fail
           THEN /\ loc' = [loc EXCEPT !.ok = FALSE, !.failed = "rename2",
                                      !.calls = Append(@, "sd_tmp_dir.replace(dst_dir)")]
                /\ UNCHANGED dirs
           ELSE /\ dirs' = [dirs EXCEPT !.dst = dirs.sd, !.sd = NoDir]
                /\ loc' = [loc EXCEPT !.calls = Append(@, "sd_tmp_dir.replace(dst_dir)")]
        /\ pc' = "finally"
        /\ UNCHANGED <<VideoBeingPlayed, PlayerProcess, storeVars, syncVars, ramVars>>

\* The finally block with the cleanup ahead of the restart of the player.
CleanupBeforePlay(bPlay, ok) ==
    <<"rmtree(ram_tmp_dir)">>
        \o (IF ok THEN <<"rmtree(sd_tmp_dir)", "rmtree(old_dir)">> ELSE <<>>)
        \o (IF bPlay THEN <<"PlayVideo(dst_dir)">> ELSE <<>>)

\* The finally block removing the scratch directory and the backup slot
\* whether the swap worked or not.
CleanupAlways(bPlay, ok) ==
    (IF bPlay THEN <<"PlayVideo(dst_dir)">> ELSE <<>>)
        \o <<"rmtree(ram_tmp_dir)", "rmtree(sd_tmp_dir)", "rmtree(old_dir)">>

\* The finally block restarting the player only after a swap that worked.
PlayOnlyWhenOk(bPlay, ok) ==
    (IF bPlay /\ ok THEN <<"PlayVideo(dst_dir)">> ELSE <<>>)
        \o <<"rmtree(ram_tmp_dir)">>
        \o (IF ok THEN <<"rmtree(sd_tmp_dir)", "rmtree(old_dir)">> ELSE <<>>)

\* The calls of the finally block (lines 251-261), in the order of the code.
finally_calls(bPlay, ok) ==
    (IF bPlay THEN <<"PlayVideo(dst_dir)">> ELSE <<>>)
        \o <<"rmtree(ram_tmp_dir)">>
        \o (IF ok THEN <<"rmtree(sd_tmp_dir)", "rmtree(old_dir)">> ELSE <<>>)

Made(calls, c) == \E i \in 1..Len(calls) : calls[i] = c

\* Lines 251-266: restart the player, clean up, return ok.
SyncDirFinally ==
    \E configured \in BOOLEAN :
    \E launched \in BOOLEAN :
    \E made \in {finally_calls(loc.bPlay, loc.ok)} :
    \E pv \in {IF Made(made, "PlayVideo(dst_dir)")
               THEN PlayVideo(PlayerProcess, VideoBeingPlayed, LiveDir,
                              configured, launched)
               ELSE [ret |-> FALSE, proc |-> PlayerProcess,
                     vbp |-> VideoBeingPlayed, calls |-> <<>>]} :
        /\ pc = "finally"
        /\ PlayerProcess' = pv.proc
        /\ VideoBeingPlayed' = pv.vbp
        /\ dirs' = [dirs EXCEPT
                      !.ram = IF Made(made, "rmtree(ram_tmp_dir)") THEN NoDir ELSE @,
                      !.sd  = IF Made(made, "rmtree(sd_tmp_dir)") THEN NoDir ELSE @,
                      !.old = IF Made(made, "rmtree(old_dir)") THEN NoDir ELSE @]
        /\ loc' = [loc EXCEPT !.ret = (IF loc.ok THEN "True" ELSE "False"),
                              !.calls = @ \o made]
        /\ pc' = "done"
        /\ UNCHANGED <<storeVars, syncVars, ramVars>>

\* The caller takes the result; the next pass may start.
SyncDirReturn ==
    /\ pc = "done"
    /\ pc' = "idle"
    /\ loc' = [NoPass EXCEPT !.prev = IF loc.failed # "" THEN "failed"
                                      ELSE loc.ret]
    /\ UNCHANGED <<dirs, VideoBeingPlayed, PlayerProcess, storeVars, syncVars, ramVars>>

\* The process is killed in the middle of a pass: the disk stays as it is.
Abort ==
    /\ pc \in SwapSteps
    /\ pc' = "aborted"
    /\ loc' = [loc EXCEPT !.at = pc]
    /\ UNCHANGED <<dirs, VideoBeingPlayed, PlayerProcess, storeVars, syncVars, ramVars>>

\* The process starts again, with the module globals of Player.py.
Restart ==
    /\ pc = "aborted"
    /\ pc' = "idle"
    /\ loc' = NoPass
    /\ VideoBeingPlayed' = ""
    /\ PlayerProcess' = "none"
    /\ UNCHANGED <<dirs, storeVars, syncVars, ramVars>>

SwapNext ==
    \/ SyncDirBegin \/ SyncDirStage \/ SyncDirCopyToSd \/ SyncDirPreflight
    \/ SyncDirRenameLive \/ SyncDirRenameTmp \/ SyncDirFinally
    \/ SyncDirReturn \/ Abort \/ Restart

SpecSwap == SwapInit /\ [][SwapNext]_vars

(***************************************************************************)
(* The main loop's own slideshow sync (AdProcess.AdProcessor.sync_dir,     *)
(* which AdProcessor.run reaches through AdProcessor.sync_files).          *)
(***************************************************************************)
\* AdProcessor.sync_dir(entry) on the directories d; the copy of the file
\* named flt raises (the loop logs it and goes on).  A cloud file is copied
\* over the live file of its name when that one is missing or older by more
\* than the tolerance.
sync_dir(d, entry, flt) ==
    IF ~IsDirEntry(entry) THEN [ret |-> "raise", dirs |-> d]
    ELSE IF d.src.kind = "none" THEN [ret |-> "False", dirs |-> d]
    ELSE IF d.dst.kind = "file" THEN [ret |-> "raise", dirs |-> d]
    ELSE LET live  == d.dst.files
             wants == {cf \in d.src.files :
                          \/ Named(live, cf.name) = {}
                          \/ \E lf \in Named(live, cf.name) :
                                 cf.mtime > lf.mtime + Tolerance}
             taken == {cf \in wants : cf.name # flt}
             kept  == {lf \in live : Named(taken, lf.name) = {}}
         IN  [ret  |-> IF taken # {} THEN "True" ELSE "False",
              dirs |-> [d EXCEPT !.base = TRUE, !.dst = Dir(kept \cup taken)]]

\* One slideshow entry handled by AdProcessor.sync_files (lines 290-299).
AdProcessorSyncDir ==
    \E entry \in Entries :
    \E flt \in {""} \cup SlideNames :
    \E r \in {sync_dir(dirs, entry, flt)} :
        /\ pc = "idle"
        /\ dirs' = r.dirs
        /\ UNCHANGED <<VideoBeingPlayed, PlayerProcess, pc, loc, storeVars, syncVars, ramVars>>

\* The program as AdProcess.py runs it next to the SyncFiles module.
RunNext == SwapNext \/ AdProcessorSyncDir

SpecRun == SwapInit /\ [][RunNext]_vars

(***************************************************************************)
(* The player driven by its callers (specification SpecPlayer): PlayVideo  *)
(* on a slideshow directory or on a video file, StopPlayer, and the child  *)
(* process ending on its own.                                              *)
(***************************************************************************)
Missing == [t |-> "missing", a |-> "", kv |-> <<>>]

\* dict.get(k): the value of key k of the object o, or Missing.
Lookup(o, k) ==
    IF o.t = "obj" /\ \E i \in 1..Len(o.kv) : o.kv[i].k = k
    THEN LET i == CHOOSE j \in 1..Len(o.kv) : o.kv[j].k = k IN o.kv[i].v
    ELSE Missing

\* bool(x) of a value got from the configuration.
Truthy(v) ==
    CASE v.t = "missing" -> FALSE
      [] v.t = "obj"     -> v.kv # <<>>
      [] v.t = "str"     -> v.a # ""
      [] OTHER           -> TRUE

Targets == {LiveDir, "DefaultAd.mp4"}

\* Path(target).is_dir(), for the targets of the model.
IsDirTarget(target) == target = LiveDir

\* Line 68: the key of CONFIG.Players that names the player.
selector_key(target) == "vid_player"

\* Lines 79-80: the handlers Player.py defines.
HandlerOf(player_key) ==
    CASE player_key = "vlc" -> "Play_vlc"
      [] player_key = "feh" -> "Play_feh"
      [] OTHER              -> ""

\* Lines 62-84 of PlayVideo: the player and the handler chosen for target, or
\* ok = FALSE when PlayVideo returns False before launching anything.
ChosenPlayer(config, target) ==
    LET players    == Lookup(config, "Players")
        player_key == Lookup(players, selector_key(target))
        player_cfg == Lookup(players, player_key.a)
        none       == [ok |-> FALSE, player |-> "", handler |-> ""]
    IN  IF ~Truthy(players) THEN none
        ELSE IF ~Truthy(player_key) THEN none
        ELSE IF ~Truthy(player_cfg) THEN none
        ELSE IF HandlerOf(player_key.a) = "" THEN none
        ELSE [ok |-> TRUE, player |-> player_key.a,
              handler |-> HandlerOf(player_key.a)]

\* CONFIG.Players as AdConfig.configDefaults has it, each player's own
\* configuration cut to its proc.
PlayersDefault ==
    Obj(<< KV("vid_player", Str("vlc")), KV("dir_player", Str("feh")),
           KV("vlc", Obj(<<KV("proc", Str("vlc"))>>)),
           KV("feh", Obj(<<KV("proc", Str("feh"))>>)) >>)

\* The configurations an editor may leave: the defaults, the two players
\* exchanged, a player without a handler, a player without a configuration,
\* no selector, no players.
PlayerConfigs ==
    { Obj(<<KV("Players", ps)>>) :
        ps \in { PlayersDefault,
                 Obj(PutKV(PutKV(PlayersDefault.kv, "vid_player", Str("feh")),
                           "dir_player", Str("vlc"))),
                 Obj(PutKV(PutKV(PlayersDefault.kv, "vid_player", Str("mpv")),
                           "mpv", Obj(<<KV("proc", Str("mpv"))>>))),
                 Obj(<< KV("vid_player", Str("vlc")), KV("dir_player", Str("feh")) >>),
                 Obj(<< KV("dir_player", Str("feh")),
                        KV("feh", Obj(<<KV("proc", Str("feh"))>>)) >>),
                 Obj(<<>>) } }
        \cup {Obj(<<>>)}

NoPlayerCall == [name |-> "", target |-> "", ret |-> FALSE, player |-> "",
                 handler |-> "", players |-> Missing, calls |-> <<>>,
                 proc |-> "none"]

PlayerInit ==
    /\ ParkedStore
    /\ ParkedRam
    /\ basename = "config.json"
    /\ files = NoFiles
    /\ temps = 0
    /\ CONFIG \in PlayerConfigs
    /\ PLAY_LIST = DefaultPlayList
    /\ now = 0
    /\ call = NoPlayerCall
    /\ prevCall = FALSE
    /\ dirs = [base |-> TRUE, src |-> NoDir, dst |-> NoDir, ram |-> NoDir,
               sd |-> NoDir, old |-> NoDir]
    /\ pc = "idle"
    /\ loc = NoPass
    /\ VideoBeingPlayed = ""
    /\ PlayerProcess = "none"

\* PlayVideo(target), called by SyncDir, SyncFiles and ProcessPlayList.
PlayVideoCall ==
    \E target \in Targets :
    \E launched \in BOOLEAN :
    \E ch \in {ChosenPlayer(CONFIG, target)} :
    \E pv \in {PlayVideo(PlayerProcess, VideoBeingPlayed, target, ch.ok, launched)} :
        /\ call.name = ""
        /\ PlayerProcess' = pv.proc
        /\ VideoBeingPlayed' = pv.vbp
        /\ call' = [name |-> "PlayVideo", target |-> target, ret |-> pv.ret,
                    player |-> ch.player, handler |-> ch.handler,
                    players |-> Lookup(CONFIG, "Players"),
                    calls |-> pv.calls, proc |-> PlayerProcess]
        /\ UNCHANGED <<basename, files, temps, CONFIG, PLAY_LIST, now, prevCall,
                       dirs, pc, loc, storeVars, ramVars>>

StopPlayerCall ==
    /\ call.name = ""
    /\ PlayerProcess' = StopPlayer(PlayerProcess)
    /\ call' = [NoPlayerCall EXCEPT !.name = "StopPlayer",
                                    !.calls = <<"StopPlayer()">>,
                                    !.proc = PlayerProcess]
    /\ UNCHANGED <<basename, files, temps, CONFIG, PLAY_LIST, now, prevCall,
                   dirs, pc, loc, VideoBeingPlayed, storeVars, ramVars>>

PlayerReturn ==
    /\ call.name # ""
    /\ call' = NoPlayerCall
    /\ UNCHANGED <<basename, files, temps, CONFIG, PLAY_LIST, now, prevCall,
                   swapVars, storeVars, ramVars>>

\* The child process ends on its own.
PlayerExits ==
    /\ call.name = ""
    /\ PlayerProcess = "running"
    /\ PlayerProcess' = "exited"
    /\ UNCHANGED <<syncVars, dirs, pc, loc, VideoBeingPlayed, storeVars, ramVars>>

\* An editor changes CONFIG.Players and the reconciliation applies it.
PlayersEdited ==
    \E c \in PlayerConfigs :
        /\ call.name = ""
        /\ c # CONFIG
        /\ CONFIG' = c
        /\ UNCHANGED <<basename, files, temps, PLAY_LIST, now, call, prevCall,
                       swapVars, storeVars, ramVars>>

PlayerNext ==
    \/ PlayVideoCall \/ StopPlayerCall \/ PlayerReturn \/ PlayerExits
    \/ PlayersEdited

SpecPlayer == PlayerInit /\ [][PlayerNext]_vars

(***************************************************************************)
(* The scan of the playlist by SyncFiles.SyncFiles, lines 434-498          *)
(* (specification SpecFiles).  SyncConfigs, which SyncFiles calls first,   *)
(* is the pass of SpecConfigs; the scan starts from the playlist that pass *)
(* left in memory.  dirs.cvid and dirs.lvid are the files of CLOUD_VIDEOS  *)
(* and LOCAL_VIDEOS; str(dst) of a video is its name.                      *)
(***************************************************************************)
VideoNames == {"a.mp4", "b.mp4"}

\* dst.with_suffix(".tmp").
with_suffix_tmp(name) ==
    CASE name = "a.mp4" -> "a.tmp"
      [] name = "b.mp4" -> "b.tmp"
      [] OTHER          -> "tmp"

\* list(PLAY_LIST.values()).
Values(o) == [i \in 1..Len(o.kv) |-> o.kv[i].v]

\* Lines 442-447: the name of an entry, "" for an entry the scan skips.
EntryName(entry) ==
    IF entry.t # "obj" THEN ""
    ELSE LET video == Lookup(entry, "video")
         IN  IF video.t = "str" THEN video.a ELSE ""

VideoFaults == {"none", "sstat", "dstat", "copy", "replace"}

\* The except clause of lines 491-498 leaving the staging file where it is.
KeepStagingFile(lv, name, copied) == lv

\* Lines 491-498: the staging file, if the try block got to naming it and it
\* exists, is unlinked.
except_cleanup(lv, name, copied) == lv \ Named(lv, with_suffix_tmp(name))

\* Lines 456-498 for the video name: the files of LOCAL_VIDEOS afterwards,
\* whether the video was replaced, and whether the scan goes on.
sync_video(cv, lv, name, flt) ==
    LET srcs == Named(cv, name)
        dsts == Named(lv, name)
        skip == [lv |-> lv, replaced |-> FALSE, failed |-> FALSE]
    IN  IF srcs = {} THEN skip
        ELSE IF flt = "sstat" THEN [skip EXCEPT !.failed = TRUE]
        ELSE IF dsts # {} /\ flt = "dstat" THEN [skip EXCEPT !.failed = TRUE]
        ELSE LET cf == CHOOSE f \in srcs : TRUE
                 do_sync ==
                     \/ dsts = {}
                     \/ \E lf \in dsts : \/ cf.size # lf.size
                                         \/ cf.mtime > lf.mtime + Tolerance
                 tmp == Slide(with_suffix_tmp(name), cf.size, cf.mtime, cf.org)
                 partial == Slide(with_suffix_tmp(name), 0, cf.mtime, cf.org)
                 staged == (lv \ Named(lv, tmp.name)) \cup {tmp}
             IN  IF ~do_sync THEN skip
                 ELSE IF flt = "copy"
                 THEN [lv |-> except_cleanup((lv \ Named(lv, tmp.name)) \cup {partial},
                                             name, TRUE),
                       replaced |-> FALSE, failed |-> TRUE]
                 ELSE IF flt = "replace"
                 THEN [lv |-> except_cleanup(staged, name, TRUE),
                       replaced |-> FALSE, failed |-> TRUE]
                 ELSE [lv |-> ((lv \ dsts) \ Named(lv, tmp.name))
                                 \cup {Slide(name, cf.size, cf.mtime, cf.org)},
                       replaced |-> TRUE, failed |-> FALSE]

\* No call of SyncFiles under way.  entries, i and currently_being_played
\* are its locals; promoted (the entries this call has promoted) and step
\* (the last video entry handled: its position, its name, what failed, the
\* files of LOCAL_VIDEOS before it, whether the try block failed, the player
\* calls made) are history kept for the properties.
NoScan ==
    [name |-> "", state |-> "idle", entries |-> <<>>, i |-> 0,
     currently_being_played |-> "", promoted |-> <<>>,
     step |-> [at |-> 0, name |-> "", flt |-> "none", pre |-> {},
               failed |-> FALSE, calls |-> <<>>]]

VideoEntry(v) == Obj(<<KV("video", Str(v))>>)

\* The playlists in memory: a slideshow and two videos in either order, one
\* with values the scan skips, an empty one.
PlayLists ==
    { Obj(<< KV("show", VideoEntry("slides/")), KV("a", VideoEntry("a.mp4")),
             KV("b", VideoEntry("b.mp4")) >>),
      Obj(<< KV("a", VideoEntry("a.mp4")), KV("b", VideoEntry("b.mp4")),
             KV("show", VideoEntry("slides/")) >>),
      Obj(<< KV("SchemaVersion", Num("2")),
             KV("blank", Obj(<<KV("start", Str("10:30"))>>)),
             KV("b", VideoEntry("b.mp4")), KV("a", VideoEntry("a.mp4")) >>),
      Obj(<<>>) }

CloudVideo(n) == Slide(n, 1, CloudMtime, "cloud")

ScanInit ==
    /\ ParkedStore
    /\ ParkedRam
    /\ basename = "PlayList.json"
    /\ files = NoFiles
    /\ temps = 0
    /\ CONFIG = Obj(<<KV("Players", PlayersDefault)>>)
    /\ PLAY_LIST \in PlayLists
    /\ now = 0
    /\ call = NoScan
    /\ prevCall = FALSE
    /\ \E show \in { <<NoDir, NoDir>>,
                     <<Dir({Slide("a.jpg", 1, CloudMtime, "cloud")}), Dir({})>>,
                     <<Dir({Slide("a.jpg", 1, CloudMtime, "cloud")}),
                       Dir({Slide("a.jpg", 1, CloudMtime, "cloud")})>> } :
       \E cvid \in SUBSET {CloudVideo(n) : n \in VideoNames} :
       \E la \in {{}, {CloudVideo("a.mp4")}, {Slide("a.mp4", 1, 0, "local")}} :
       \E lb \in {{}, {CloudVideo("b.mp4")}} :
       \E lt \in {{}, {Slide("a.tmp", 0, 0, "local")}} :
           dirs = [base |-> TRUE, src |-> show[1], dst |-> show[2],
                   ram |-> NoDir, sd |-> NoDir, old |-> NoDir,
                   cvid |-> cvid, lvid |-> la \cup lb \cup lt]
    /\ \E p \in {<<"", "none">>, <<"a.mp4", "running">>, <<LiveDir, "running">>} :
           /\ VideoBeingPlayed = p[1]
           /\ PlayerProcess = p[2]
    /\ pc = "idle"
    /\ loc = NoPass

Scanning == call.name = "SyncFiles" /\ call.state = "scan" /\ pc = "idle"

\* Lines 434-439.
SyncFilesBegin ==
    \E entries \in {Values(PLAY_LIST)} :
        /\ call.name = ""
        /\ pc = "idle"
        /\ call' = [NoScan EXCEPT
                      !.name = "SyncFiles",
                      !.entries = entries,
                      !.i = 1,
                      !.currently_being_played = GetCurrentlyPlaying(VideoBeingPlayed),
                      !.state = IF entries = <<>> THEN "returned" ELSE "scan"]
        /\ UNCHANGED <<basename, files, temps, CONFIG, PLAY_LIST, now, prevCall,
                       swapVars, storeVars, ramVars>>

\* The for statement of line 441 has no entry left: SyncFiles returns.
ScanEnd ==
    /\ Scanning
    /\ call.i > Len(call.entries)
    /\ call' = [call EXCEPT !.state = "returned"]
    /\ UNCHANGED <<basename, files, temps, CONFIG, PLAY_LIST, now, prevCall,
                   swapVars, storeVars, ramVars>>

\* Lines 442-447: an entry that is no dict or names nothing.
ScanSkip ==
    /\ Scanning
    /\ call.i <= Len(call.entries)
    /\ EntryName(call.entries[call.i]) = ""
    /\ call' = [call EXCEPT !.i = @ + 1]
    /\ UNCHANGED <<basename, files, temps, CONFIG, PLAY_LIST, now, prevCall,
                   swapVars, storeVars, ramVars>>

\* Line 451: SyncDir(entry) is entered (SyncDirBegin for this entry); its
\* steps are those of SpecSwap.
ScanSyncDirBegin ==
    \E flt \in EnterFaults :
    \E r \in {SyncDirEnter(dirs, flt)} :
        /\ Scanning
        /\ call.i <= Len(call.entries)
        /\ IsDirEntry(EntryName(call.entries[call.i]))
        /\ dirs' = r.dirs
        /\ loc' = [NoPass EXCEPT !.entry = EntryName(call.entries[call.i]),
                     !.currently_being_played = GetCurrentlyPlaying(VideoBeingPlayed),
                     !.ret = r.ret, !.pre = r.dirs.dst, !.prev = loc.prev]
        /\ pc' = (IF r.ret = "" THEN "stage" ELSE "done")
        /\ call' = [call EXCEPT !.state = "SyncDir"]
        /\ UNCHANGED <<basename, files, temps, CONFIG, PLAY_LIST, now, prevCall,
                       VideoBeingPlayed, PlayerProcess, storeVars, ramVars>>

\* Lines 451-453: SyncDir is back.  True ends the call, False goes on with
\* the next entry, an exception leaves SyncFiles.
ScanSyncDirReturn ==
    /\ call.name = "SyncFiles"
    /\ call.state = "SyncDir"
    /\ pc = "done"
    /\ pc' = "idle"
    /\ loc' = NoPass
    /\ call' = CASE loc.ret = "True" ->
                      [call EXCEPT !.state = "returned",
                                   !.promoted = Append(@, loc.entry)]
                 [] loc.ret = "False" ->
                      [call EXCEPT !.state = "scan", !.i = @ + 1]
                 [] OTHER ->
                      [call EXCEPT !.state = "raised"]
    /\ UNCHANGED <<basename, files, temps, CONFIG, PLAY_LIST, now, prevCall,
                   dirs, VideoBeingPlayed, PlayerProcess, storeVars, ramVars>>

\* Lines 455-498: a video entry.
ScanVideo ==
    \E flt \in VideoFaults :
    \E launched \in BOOLEAN :
    \E name \in {IF Scanning /\ call.i <= Len(call.entries)
                 THEN EntryName(call.entries[call.i]) ELSE ""} :
    \E r \in {sync_video(dirs.cvid, dirs.lvid, name, flt)} :
    \E play \in {r.replaced /\ call.currently_being_played = name} :
    \E pv \in {IF play
               THEN PlayVideo(PlayerProcess, VideoBeingPlayed, name,
                              ChosenPlayer(CONFIG, name).ok, launched)
               ELSE [ret |-> FALSE, proc |-> PlayerProcess,
                     vbp |-> VideoBeingPlayed, calls |-> <<>>]} :
        /\ Scanning
        /\ name # ""
        /\ ~IsDirEntry(name)
        /\ dirs' = [dirs EXCEPT !.lvid = r.lv]
        /\ PlayerProcess' = pv.proc
        /\ VideoBeingPlayed' = pv.vbp
        /\ call' = [call EXCEPT
                      !.state = IF r.replaced THEN "returned" ELSE "scan",
                      !.i = IF r.replaced THEN @ ELSE @ + 1,
                      !.promoted = IF r.replaced THEN Append(@, name) ELSE @,
                      !.step = [at |-> call.i, name |-> name, flt |-> flt,
                                pre |-> dirs.lvid,
                                failed |-> r.failed,
                                calls |-> IF play THEN <<"PlayVideo(dst)">>
                                          ELSE <<>>]]
        /\ UNCHANGED <<basename, files, temps, CONFIG, PLAY_LIST, now, prevCall,
                       pc, loc, storeVars, ramVars>>

\* SyncFiles is over; the main loop calls it again on its next pass.
SyncFilesReturn ==
    /\ call.name = "SyncFiles"
    /\ call.state \in {"returned", "raised"}
    /\ call' = NoScan
    /\ UNCHANGED <<basename, files, temps, CONFIG, PLAY_LIST, now, prevCall,
                   swapVars, storeVars, ramVars>>

FilesNext ==
    \/ SyncFilesBegin \/ ScanEnd \/ ScanSkip \/ ScanSyncDirBegin
    \/ SyncDirStage \/ SyncDirCopyToSd \/ SyncDirPreflight
    \/ SyncDirRenameLive \/ SyncDirRenameTmp \/ SyncDirFinally
    \/ ScanSyncDirReturn \/ ScanVideo \/ SyncFilesReturn

SpecFiles == ScanInit /\ [][FilesNext]_vars

(***************************************************************************)
(* The choice of what to play (PlayList.ProcessPlayList, specification     *)
(* SpecPlayList).  now is the day; the path of a video in LOCAL_VIDEOS is  *)
(* its name.  Of the filters the model has the missing file, the start     *)
(* date and the day of the week; the end date, the time window and         *)
(* ThisWeekOnly skip an entry the same way.                                *)
(***************************************************************************)
\* now.strftime("%a").
weekday(t) == IF t % 2 = 0 THEN "Mon" ELSE "Tue"

\* datetime.strptime(s, "%Y-%m-%d").date(), -1 when it raises ValueError.
strptime(s) ==
    CASE s = "day0" -> 0
      [] s = "day1" -> 1
      [] s = "day2" -> 2
      [] OTHER      -> -1

\* str(Path(p)): the empty path is the relative path ".".
str_Path(p) == IF p = "" THEN "." ELSE p

\* (entry.get(k) or "").strip().
Field(entry, k) ==
    LET v == Lookup(entry, k) IN IF v.t = "str" THEN v.a ELSE ""

\* Lines 58-130 for one entry: does it pass every filter?
Passes(entry, lv, t) ==
    LET video == Field(entry, "video")
        start == Field(entry, "start_date")
        days  == Field(entry, "days")
    IN  /\ video # ""
        /\ Named(lv, video) # {}
        /\ start # "" => strptime(start) # -1 /\ t >= strptime(start)
        /\ days # "" => weekday(t) = days

\* Lines 54-130: the loop.  Every entry that passes replaces the candidate;
\* entry.get of line 58 raises on a value that is no dict.
RECURSIVE Candidate(_, _, _, _)
Candidate(entries, useThis, lv, t) ==
    IF entries = <<>> THEN [raised |-> FALSE, useThis |-> useThis]
    ELSE IF entries[1].t # "obj" THEN [raised |-> TRUE, useThis |-> useThis]
    ELSE Candidate(Tail(entries),
                   IF Passes(entries[1], lv, t)
                   THEN Field(entries[1], "video") ELSE useThis,
                   lv, t)

\* Lines 132-140: the candidate goes through str(Path()) and is played when
\* it is not empty and not what is playing.
playback_decision(useThis, currently_playing) ==
    LET path == str_Path(useThis)
    IN  [play |-> path # "" /\ currently_playing # path, target |-> path]

Scheduled(v, days, start) ==
    Obj(<< KV("video", Str(v)), KV("days", Str(days)),
           KV("start_date", Str(start)) >>)

Schedules ==
    { Obj(<< KV("default", Scheduled("DefaultAd.mp4", "", "")),
             KV("weekly", Scheduled("a.mp4", "Tue", "")) >>),
      Obj(<< KV("default", Scheduled("DefaultAd.mp4", "Mon", "")),
             KV("later", Scheduled("b.mp4", "", "day1")) >>),
      Obj(<< KV("only", Scheduled("a.mp4", "", "someday")) >>),
      Obj(<<>>),
      DefaultPlayList }

NoChoice ==
    [name |-> "", raised |-> FALSE, passed |-> "", playing |-> "",
     proc |-> "none", calls |-> <<>>]

PlayListInit ==
    /\ ParkedStore
    /\ ParkedRam
    /\ basename = "PlayList.json"
    /\ files = NoFiles
    /\ temps = 0
    /\ CONFIG = Obj(<<KV("Players", PlayersDefault)>>)
    /\ PLAY_LIST \in Schedules
    /\ now = 0
    /\ call = NoChoice
    /\ prevCall = FALSE
    /\ \E lv \in SUBSET {CloudVideo(n) : n \in {"DefaultAd.mp4", "a.mp4", "b.mp4"}} :
           dirs = [base |-> TRUE, src |-> NoDir, dst |-> NoDir, ram |-> NoDir,
                   sd |-> NoDir, old |-> NoDir, cvid |-> {}, lvid |-> lv]
    /\ \E p \in {<<"", "none">>, <<"DefaultAd.mp4", "running">>,
                 <<"a.mp4", "running">>} :
           /\ VideoBeingPlayed = p[1]
           /\ PlayerProcess = p[2]
    /\ pc = "idle"
    /\ loc = NoPass

\* ProcessPlayList().
ProcessPlayListCall ==
    \E launched \in BOOLEAN :
    \E c \in {Candidate(Values(PLAY_LIST), "", dirs.lvid, now)} :
    \E currently_playing \in {GetCurrentlyPlaying(VideoBeingPlayed)} :
    \E d \in {playback_decision(c.useThis, currently_playing)} :
    \E pv \in {IF ~c.raised /\ d.play
               THEN PlayVideo(PlayerProcess, VideoBeingPlayed, d.target,
                              ChosenPlayer(CONFIG, d.target).ok, launched)
               ELSE [ret |-> FALSE, proc |-> PlayerProcess,
                     vbp |-> VideoBeingPlayed, calls |-> <<>>]} :
        /\ call.name = ""
        /\ PlayerProcess' = pv.proc
        /\ VideoBeingPlayed' = pv.vbp
        /\ call' = [name |-> "ProcessPlayList", raised |-> c.raised,
                    passed |-> c.useThis, playing |-> currently_playing,
                    proc |-> PlayerProcess,
                    calls |-> IF ~c.raised /\ d.play
                              THEN <<[op |-> "PlayVideo", target |-> d.target]>>
                              ELSE <<>>]
        /\ UNCHANGED <<basename, files, temps, CONFIG, PLAY_LIST, now, prevCall,
                       dirs, pc, loc, storeVars, ramVars>>

ProcessPlayListReturn ==
    /\ call.name = "ProcessPlayList"
    /\ call' = NoChoice
    /\ UNCHANGED <<basename, files, temps, CONFIG, PLAY_LIST, now, prevCall,
                   swapVars, storeVars, ramVars>>

PlayListNext ==
    \/ ProcessPlayListCall \/ ProcessPlayListReturn \/ Tick \/ PlayerExits

SpecPlayList == PlayListInit /\ [][PlayListNext]_vars

(***************************************************************************)
(* The RAM staging root (specification SpecRam): calls of InitRamStaging   *)
(* between changes an administrator makes to the root and its mounts.      *)
(***************************************************************************)
MaxMounts == 2      \* file systems stacked on RAM_STAGING_ROOT

FsTypes  == {"tmpfs", "ext4"}
Modes    == {"0770", "0750"}
RamFaults == {"none", "mkdir", "mounts", "usage", "mount", "chmod"}

\* The root, its mounts and its mode, without the call.
Disk(s) == [root |-> s.root, mounts |-> s.mounts, mode |-> s.mode]

\* RamStaging._is_tmpfs_mount: /proc/mounts lists the mounts oldest first and
\* the first line whose mount point is the path decides; a file that cannot
\* be read counts as no mount.
is_tmpfs_mount(mounts, flt) ==
    /\ flt # "mounts"
    /\ mounts # <<>>
    /\ mounts[1] = "tmpfs"

\* RamStaging.InitRamStaging on the disk d with the fault flt; umask is the
\* mode a directory created by mkdir gets.  The result: the disk, whether the
\* mount command was run, how the call went, and whether an exception left it
\* (the except clause of lines 64-65 catches whatever leaves the body).
InitRamStaging(d, flt, umask) ==
    LET crashed(x) == [disk |-> x, attempts |-> 0, outcome |-> "crashed",
                       raised |-> FALSE]
        d1 == IF d.root = "none" THEN [d EXCEPT !.root = "dir", !.mode = umask]
              ELSE d
        mounted == [d1 EXCEPT !.mounts = Append(d1.mounts, "tmpfs"),
                               !.mode = "0770"]
        chmod(x) == IF flt = "chmod" THEN x ELSE [x EXCEPT !.mode = "0770"]
    IN  IF flt = "mkdir" \/ d.root = "file" THEN crashed(d)
        ELSE IF is_tmpfs_mount(d1.mounts, flt)
        THEN IF flt = "usage" THEN crashed(d1)
             ELSE [disk |-> d1, attempts |-> 0, outcome |-> "found",
                   raised |-> FALSE]
        ELSE IF flt = "mount"
        THEN [disk |-> chmod(d1), attempts |-> 1, outcome |-> "failed",
              raised |-> FALSE]
        ELSE [disk |-> chmod(mounted), attempts |-> 1, outcome |-> "established",
              raised |-> FALSE]

RamDisks ==
    {[root |-> "none", mounts |-> <<>>, mode |-> ""],
     [root |-> "file", mounts |-> <<>>, mode |-> ""]}
        \cup {[root |-> "dir", mounts |-> m, mode |-> md] :
                 m \in {<<>>, <<"tmpfs">>, <<"ext4">>}, md \in Modes}

RamInit ==
    /\ ParkedDocs
    /\ ParkedSwap
    /\ \E d \in RamDisks :
           staging = [NoStaging EXCEPT !.root = d.root, !.mounts = d.mounts,
                                       !.mode = d.mode, !.pre = d]

\* One call of InitRamStaging.
RamCall ==
    \E flt \in RamFaults :
    \E umask \in Modes :
    \E r \in {InitRamStaging(Disk(staging), flt, umask)} :
        /\ staging.pc = "idle"
        /\ Len(r.disk.mounts) <= MaxMounts
        /\ staging' = [root |-> r.disk.root, mounts |-> r.disk.mounts,
                       mode |-> r.disk.mode, pc |-> "done",
                       raised |-> r.raised, attempts |-> r.attempts,
                       outcome |-> r.outcome, prev |-> staging.prev,
                       pre |-> Disk(staging)]
        /\ UNCHANGED <<storeVars, syncVars, swapVars>>

\* The caller goes on; prev remembers how the call went.
RamReturn ==
    /\ staging.pc = "done"
    /\ staging' = [staging EXCEPT !.pc = "idle", !.raised = FALSE,
                                  !.attempts = 0, !.outcome = "",
                                  !.prev = staging.outcome]
    /\ UNCHANGED <<storeVars, syncVars, swapVars>>

\* An administrator unmounts the file system on top of the root.
Unmount ==
    /\ staging.pc = "idle"
    /\ staging.mounts # <<>>
    /\ \E md \in Modes :
           staging' = [staging EXCEPT
                          !.mounts = SubSeq(staging.mounts, 1, Len(staging.mounts) - 1),
                          !.mode = md, !.prev = ""]
    /\ UNCHANGED <<storeVars, syncVars, swapVars>>

\* An administrator removes the unmounted root.
RemoveRoot ==
    /\ staging.pc = "idle"
    /\ staging.root = "dir"
    /\ staging.mounts = <<>>
    /\ staging' = [staging EXCEPT !.root = "none", !.mode = "", !.prev = ""]
    /\ UNCHANGED <<storeVars, syncVars, swapVars>>

\* An administrator mounts a file system on the root.
MountOnRoot ==
    \E fs \in FsTypes :
    \E md \in Modes :
        /\ staging.pc = "idle"
        /\ staging.root = "dir"
        /\ Len(staging.mounts) < MaxMounts
        /\ staging' = [staging EXCEPT !.mounts = Append(staging.mounts, fs),
                                      !.mode = md, !.prev = ""]
        /\ UNCHANGED <<storeVars, syncVars, swapVars>>

RamNext == RamCall \/ RamReturn \/ Unmount \/ RemoveRoot \/ MountOnRoot

SpecRam == RamInit /\ [][RamNext]_vars

(***************************************************************************)
(* Properties of the directory swap (specification SpecSwap).              *)
(***************************************************************************)
\* C1: a pass killed during the swap, in particular between the two renames,
\* leaves a live directory that exists and holds either the complete set it
\* held before the swap or the complete staged set.
C1_AbortLeavesCompleteSet ==
    (pc = "aborted" /\ loc.at \in {"rename1", "rename2"})
        => /\ dirs.dst.kind = "dir"
           /\ dirs.dst.files \in {loc.pre.files, loc.staged}

\* C2: when one of the two renames fails, the swap is rolled back: at the
\* return of SyncDir the live directory exists and holds the complete set it
\* held before the swap.
C2_RenameFailureRolledBack ==
    (pc = "done" /\ loc.failed # "")
        => /\ dirs.dst.kind = "dir"
           /\ dirs.dst.files = loc.pre.files

\* C11: the live slideshow directory changes only as a whole (it is created,
\* renamed away or renamed in): no step of the program changes the files of a
\* live directory that stays in place.
C11_LiveDirOnlySwapped ==
    [][(dirs.dst.kind = "dir" /\ dirs'.dst.kind = "dir") => dirs'.dst = dirs.dst]_vars

\* C12: SyncDir never raises to its caller: whatever filesystem step fails
\* (a directory creation, a copy into the RAM staging set, the copy into the
\* scratch directory), the pass ends by returning True or False.
C12_SyncDirNeverRaises ==
    (pc = "done") => loc.ret \in {"True", "False"}

\* The names of the files of a set.
Names(fs) == {f.name : f \in fs}

\* The cloud copy cf was missing from the live set or newer than its live
\* namesake by more than the tolerance.
MissingOrStale(cf, live) ==
    \/ Named(live, cf.name) = {}
    \/ \E lf \in Named(live, cf.name) : cf.mtime > lf.mtime + Tolerance

\* C14: when SyncDir returns True the live directory holds exactly the names
\* the cloud directory held when the staging set was built (the cloud
\* directory does not change during a pass), and every cloud file that was
\* missing from the live directory or stale there is now in the live
\* directory as the cloud has it.
C14_LiveEqualsRemote ==
    (pc = "done" /\ loc.ret = "True")
        => /\ dirs.dst.kind = "dir"
           /\ Names(dirs.dst.files) = Names(dirs.src.files)
           /\ \A cf \in dirs.src.files :
                  MissingOrStale(cf, loc.pre.files) => cf \in dirs.dst.files

\* Every cloud file has a live namesake of the same size whose modification
\* time is within the tolerance, and every live file is in the cloud listing.
InSync(d) ==
    /\ d.src.kind = "dir"
    /\ d.dst.kind = "dir"
    /\ \A cf \in d.src.files :
           \E lf \in Named(d.dst.files, cf.name) :
               lf.size = cf.size /\ Abs(lf.mtime - cf.mtime) <= Tolerance
    /\ Names(d.dst.files) \subseteq Names(d.src.files)

\* C15: a pass that finds the live directory in sync with the cloud directory
\* ends after the staging loop by returning False: it reaches no rename, it
\* leaves the live directory as it is and it calls neither StopPlayer nor
\* PlayVideo.
C15_InSyncNoOp ==
    [][(InSync(dirs) /\ pc \in {"idle", "stage"} /\ pc' \notin {pc, "aborted"})
          => /\ pc' \in {"stage", "done"}
             /\ pc' = "done" => loc'.ret = "False"
             /\ dirs'.dst = dirs.dst
             /\ PlayerProcess' = PlayerProcess
             /\ VideoBeingPlayed' = VideoBeingPlayed]_vars

\* The live files the pass found whose names the cloud listing does not have.
Orphans == {lf \in loc.pre.files : lf.name \notin Names(dirs.src.files)}

\* C16: a pass that finds in the live directory a file the cloud listing does
\* not have performs the swap and returns True, whether or not a file was
\* staged from the cloud, and the live directory then no longer has that file.
C16_DeletionSwaps ==
    (pc = "done" /\ IsDirEntry(loc.entry) /\ dirs.src.kind = "dir" /\ Orphans # {})
        => /\ loc.ret = "True"
           /\ dirs.dst.kind = "dir"
           /\ Names(dirs.dst.files) \cap Names(Orphans) = {}

\* C17: when the cloud directory does not exist, or the parent of the live
\* directory does not exist, or the live path is not a directory, SyncDir
\* returns False at once: no file or directory is created, renamed or deleted
\* and neither StopPlayer nor PlayVideo is called.
C17_FailedPreconditionTouchesNothing ==
    [][(/\ pc = "idle" /\ pc' # "idle"
        /\ IsDirEntry(loc'.entry)
        /\ dirs.src.kind = "none" \/ ~dirs.base \/ dirs.dst.kind = "file")
          => /\ pc' = "done"
             /\ loc'.ret = "False"
             /\ dirs' = dirs
             /\ PlayerProcess' = PlayerProcess
             /\ VideoBeingPlayed' = VideoBeingPlayed]_vars

\* A pass over "slides/" that found a plain file at the live path, returned.
C17_Witness ==
    /\ pc = "done" /\ loc.entry = "slides/" /\ loc.ret = "False"
    /\ dirs.src.kind = "dir" /\ dirs.base /\ dirs.dst.kind = "file"

\* C18: with the cloud directory unchanged (it never changes here), the pass
\* that follows a pass that returned True returns False, so that the passes
\* settle; and the live directory, whenever it is there during a pass, holds
\* the set the pass found or the set the pass staged, never a mixture.
C18_Settles ==
    /\ (pc = "done" /\ loc.prev = "True") => loc.ret = "False"
    /\ (pc \in SwapSteps \cup {"done"} /\ dirs.dst.kind = "dir")
           => dirs.dst.files \in {loc.pre.files, loc.staged}

\* C19: the pass that follows a pass whose swap failed, finding the cloud
\* directory there and meeting no failure of its own, ends with the live
\* directory in place holding exactly the names of the cloud directory, and
\* with neither the scratch directory nor the backup slot left.
C19_FailedSwapRetried ==
    (/\ pc = "done" /\ loc.prev = "failed"
     /\ IsDirEntry(loc.entry) /\ dirs.src.kind = "dir"
     /\ loc.ret # "raise" /\ loc.failed = "" /\ ~loc.faulted)
        => /\ dirs.dst.kind = "dir"
           /\ Names(dirs.dst.files) = Names(dirs.src.files)
           /\ dirs.sd = NoDir
           /\ dirs.old = NoDir

(***************************************************************************)
(* Properties of the staging loop of SyncDir (specification SpecSwap).     *)
(***************************************************************************)
\* The staging loop has just run to its end, or has just been left by an
\* exception.
StagingLoopRan == pc = "stage" /\ pc' \notin {"stage", "aborted"}

\* The cloud files that have a namesake in the live directory, each with
\* that namesake.
Pairs ==
    {p \in dirs.src.files \X dirs.dst.files : p[1].name = p[2].name}

\* The live file is equal to the cloud file within tolerance, or newer than
\* it by more than the tolerance.
LocalPreferred(cf, lf) ==
    \/ lf.size = cf.size /\ Abs(lf.mtime - cf.mtime) <= Tolerance
    \/ lf.mtime > cf.mtime + Tolerance

\* C24: for a cloud file whose live namesake has a different size, whatever
\* the two modification times, and for a cloud file whose modification time
\* exceeds that of its live namesake by more than one second, the staging
\* loop stages the cloud copy and marks the set changed.
C24_RemoteStagedWhenSizeDiffersOrNewer ==
    [][StagingLoopRan
          => \A p \in Pairs :
                (p[2].size # p[1].size \/ p[1].mtime > p[2].mtime + Tolerance)
                    => /\ p[1] \in loc'.staged
                       /\ loc'.copied_from_cloud]_vars

\* C25: for a cloud file whose live namesake is equal to it within tolerance
\* (same size, modification times within one second) or newer than it by more
\* than one second, the staging loop stages the live copy, and that file does
\* not mark the set changed: when every cloud file is such a file the set
\* is not marked changed.
C25_LocalStagedWhenEqualOrNewer ==
    [][StagingLoopRan
          => /\ \A p \in Pairs :
                    LocalPreferred(p[1], p[2]) => p[2] \in loc'.staged
             /\ (\A cf \in dirs.src.files :
                    \E p \in Pairs : p[1] = cf /\ LocalPreferred(p[1], p[2]))
                   => ~loc'.copied_from_cloud]_vars

\* The backup slot exists and has content.
BackupSlotFull == dirs.old.kind = "dir" /\ dirs.old.files # {}

\* C26: a pass that could not clear the backup slot stops there and returns
\* False: the pass is never past the preflight (StopPlayer called when the
\* show was playing, the rename of the live directory about to be tried)
\* while the backup slot still exists with content.
C26_NoSwapOverFullBackupSlot ==
    (pc = "rename1") => ~BackupSlotFull

\* The position of the first call c in the calls of the pass, 0 when the
\* pass has not made it.
Pos(c) ==
    IF Made(loc.calls, c)
    THEN CHOOSE i \in 1..Len(loc.calls) :
            loc.calls[i] = c /\ \A j \in 1..(i - 1) : loc.calls[j] # c
    ELSE 0

\* The calls of loc.calls from position i on.
From(i) == SubSeq(loc.calls, i, Len(loc.calls))

C28_PlayerRestarted ==
    (pc = "done" /\ Made(loc.calls, "StopPlayer()"))
        => /\ Pos("PlayVideo(dst_dir)") > Pos("StopPlayer()")
           /\ \A i \in Pos("StopPlayer()")..Len(loc.calls) :
                  loc.calls[i] \in {"rmtree(ram_tmp_dir)", "rmtree(sd_tmp_dir)",
                                    "rmtree(old_dir)"}
                      => Pos("PlayVideo(dst_dir)") < i

C28_Witness ==
    /\ pc = "done"
    /\ Made(loc.calls, "StopPlayer()")
    /\ loc.failed = "rename2"
    /\ dirs.dst.kind = "none"

\* C29: a pass calls StopPlayer and PlayVideo only when what
\* GetCurrentlyPlaying reported at its start is the live directory it
\* replaces; when something else or nothing was playing it makes no player
\* call and leaves the player as it is.
C29_PlayerCallsOnlyForLiveDir ==
    (pc \in {"rename1", "rename2", "finally", "done"}
        /\ loc.currently_being_played # LiveDir)
            => /\ ~Made(loc.calls, "StopPlayer()")
               /\ ~Made(loc.calls, "PlayVideo(dst_dir)")

\* C30: when a pass that has created the RAM staging directory ends,
\* whatever its outcome (nothing to do, a swap that worked, a swap that
\* failed, a failure while staging or while copying to the scratch
\* directory), the RAM staging directory does not exist.
C30_RamDirRemoved ==
    [][(pc \in {"stage", "sdcopy", "finally"} /\ pc' = "done")
          => dirs'.ram.kind = "none"]_vars

C23_PlayerByTargetType ==
    (call.name = "PlayVideo" /\ call.handler # "")
        => call.player = Lookup(call.players,
                                IF IsDirTarget(call.target) THEN "dir_player"
                                ELSE "vid_player").a

\* C32: the program tracks one child at most, and a running one only as the
\* last thing it launched: a PlayVideo that gets to launching finds no
\* running child tracked or stops it first, and after a launch that failed
\* no child is tracked.
C32_SingleChild ==
    /\ PlayerProcess \in {"none", "running", "exited"}
    /\ (call.name = "PlayVideo" /\ Made(call.calls, "handler()"))
          => /\ call.proc = "running"
                   => call.calls = <<"StopPlayer()", "handler()">>
             /\ call.proc # "running" => call.calls = <<"handler()">>
             /\ PlayerProcess = (IF call.ret THEN "running" ELSE "none")

C32_Witness ==
    /\ call.name = "PlayVideo"
    /\ call.proc = "running"
    /\ Made(call.calls, "handler()")
    /\ ~call.ret

\* C35: GetCurrentlyPlaying() returns a path only while the child the last
\* successful PlayVideo launched for that path is tracked; after StopPlayer()
\* it returns the empty string.
C35_PlayingOnlyWhileTracked ==
    /\ GetCurrentlyPlaying(VideoBeingPlayed) # "" => PlayerProcess # "none"
    /\ call.name = "StopPlayer" => GetCurrentlyPlaying(VideoBeingPlayed) = ""

(***************************************************************************)
(* Properties of the playlist scan (specification SpecFiles).              *)
(***************************************************************************)
ScanOver == call.name = "SyncFiles" /\ call.state \in {"returned", "raised"}

\* C33: a call of SyncFiles promotes one media item at most.  It returns at
\* the first entry for which SyncDir returned True or whose video file was
\* replaced; an entry that needed nothing, and one whose sync failed, do not
\* end the scan: a call that promoted nothing has gone through every entry.
C33_OnePromotionPerCall ==
    ScanOver
        => /\ call.state = "returned"
           /\ Len(call.promoted) <= 1
           /\ call.promoted # <<>>
                 => /\ call.i <= Len(call.entries)
                    /\ EntryName(call.entries[call.i]) = call.promoted[1]
           /\ call.promoted = <<>> => call.i > Len(call.entries)

\* The copy to the staging file or the replace of the last video entry
\* failed.
VideoSyncFailed ==
    /\ call.name = "SyncFiles"
    /\ call.step.failed
    /\ call.step.flt \in {"copy", "replace"}

C34_PlaysOnlyAPassingEntry ==
    (call.name = "ProcessPlayList")
        => /\ call.calls # <<>>
                 => /\ call.passed # ""
                    /\ call.passed # call.playing
                    /\ call.calls = <<[op |-> "PlayVideo", target |-> call.passed]>>
           /\ call.passed = ""
                 => /\ call.calls = <<>>
                    /\ VideoBeingPlayed = call.playing
                    /\ PlayerProcess = call.proc

(***************************************************************************)
(* Properties of the RAM staging root (specification SpecRam).             *)
(***************************************************************************)
\* C21: InitRamStaging never raises to its caller, and it is idempotent: the
\* call that follows a call that found or established the tmpfs mount, the
\* root and its mounts not touched in between, runs no mount command and
\* leaves the root, its mounts and its mode as they were.
C21_NeverRaisesIdempotent ==
    (staging.pc = "done")
        => /\ ~staging.raised
           /\ staging.prev \in {"found", "established"}
                 => staging.attempts = 0 /\ Disk(staging) = staging.pre

(***************************************************************************)
(* Properties of the reconciliation (specification SpecSync).              *)
(***************************************************************************)
\* The in-memory document of basename.
Mem == IF basename = "config.json" THEN CONFIG ELSE PLAY_LIST

\* The three modification times the call read, a missing file counting as -1.
PreCloud    == mtime(call.pre.cloud)
PreLocal    == mtime(call.pre.local)
PreLastGood == mtime(call.pre.last_good)

Returned == call.name # ""

\* No source is strictly newer than both others.
NoStrictWinner ==
    /\ ~(PreCloud > PreLastGood /\ PreCloud > PreLocal)
    /\ ~(PreLocal > PreLastGood /\ PreLocal > PreCloud)
    /\ ~(PreLastGood > PreCloud /\ PreLastGood > PreLocal)

\* The file that is strictly newest, when it is the cloud or the local one
\* and last-good exists (otherwise NoFile).
WinningFile ==
    IF ~call.pre.last_good.ex THEN NoFile
    ELSE IF PreCloud > PreLastGood /\ PreCloud > PreLocal THEN call.pre.cloud
    ELSE IF PreLocal > PreLastGood /\ PreLocal > PreCloud THEN call.pre.local
    ELSE NoFile

\* C3, as claimed: whenever no source is strictly newest, the call returns
\* false and leaves the last-good file and the in-memory document as they were.
C3_NoWinnerNoOp ==
    (Returned /\ NoStrictWinner)
        => /\ call.ret = FALSE
           /\ files.last_good = call.pre.last_good
           /\ Mem = call.preMem

\* C3, amended: the same, for the calls that read a modification time of the
\* last-good file that is not negative (the file is there and not to be seeded).
C3_NoWinnerNoOpWhenSeeded ==
    (Returned /\ PreLastGood >= 0 /\ NoStrictWinner)
        => /\ call.ret = FALSE
           /\ files.last_good = call.pre.last_good
           /\ Mem = call.preMem

\* A call that found cloud and local tied above an existing last-good file.
C3_Witness ==
    /\ Returned /\ call.faultFree
    /\ call.pre.last_good.ex /\ call.pre.cloud.ex
    /\ PreCloud = PreLocal /\ PreCloud > PreLastGood
    /\ call.ret = FALSE

\* C4: when the cloud or local file is the strict winner and loads as a JSON
\* object, a call none of whose steps fails returns true and leaves a last-good
\* file that is a JSON object with the winner's content (key order aside).
C4_WinnerPersisted ==
    (Returned /\ call.faultFree /\ load_json_preserve_order(WinningFile).ok)
        => /\ call.ret = TRUE
           /\ load_json_preserve_order(files.last_good).ok
           /\ json_dump(load_json_preserve_order(files.last_good).val, TRUE)
                = json_dump(load_json_preserve_order(WinningFile).val, TRUE)

\* C5: after a call that wrote the last-good file, the in-memory document is
\* the content of that file (key order aside: the file is written sorted).
C5_MemoryMirrorsLastGood ==
    (Returned /\ files.last_good # call.pre.last_good)
        => files.last_good.data = json_dump(Mem, TRUE)

\* C6: a call that finds no last-good file, and none of whose steps fails,
\* returns false, writes the defaults to last-good and leaves the in-memory
\* document equal to the defaults.
C6_SeedsDefaults ==
    (Returned /\ call.faultFree /\ ~call.pre.last_good.ex)
        => /\ call.ret = FALSE
           /\ files.last_good.data = json_dump(call.defaults, TRUE)
           /\ Mem = call.defaults

\* C7: when the strict winner does not load as a JSON object, the call returns
\* false and leaves the last-good file and the in-memory document untouched.
C7_BadWinnerAborts ==
    (Returned /\ WinningFile.ex /\ ~load_json_preserve_order(WinningFile).ok)
        => /\ call.ret = FALSE
           /\ files.last_good = call.pre.last_good
           /\ Mem = call.preMem

\* C8: a call that follows another with no file touched in between returns
\* false (stated for the case that no step of either call fails).
C8_SecondCallFalse ==
    (Returned /\ call.quiet /\ call.faultFree) => call.ret = FALSE

\* C13: sync_common never raises: whichever filesystem step fails (creating
\* the parent, copying the cloud file, loading the winner, writing last-good),
\* the call ends by returning a boolean, and False when a step failed before
\* last-good was written.
C13_SyncCommonNeverRaises ==
    Returned => /\ ~call.raised
                /\ call.ret \in BOOLEAN
                /\ call.branch \in {"mkdir", "copy", "crashed"} => call.ret = FALSE

\* A call whose LoadConfig raised, returned.
C13_Witness == Returned /\ call.branch = "crashed"

\* The call reached _persist_last_good_and_apply (seeding, or applying the
\* cloud or local winner) and the write of the last-good file failed.
LastGoodWriteFailed ==
    /\ Returned
    /\ call.branch \in {"seed", "cloud", "local"}
    /\ ~call.written

\* C36: when the write of the last-good file fails inside sync_common, seeding
\* or applying a winner, the in-memory document is left as it was and the call
\* returns false; a call that replaced the in-memory document wrote the
\* last-good file first.
C36_FailedWriteKeepsMemory ==
    /\ LastGoodWriteFailed => (Mem = call.preMem /\ call.ret = FALSE)
    /\ (Returned /\ Mem # call.preMem) => call.written

\* A cloud winner that loads and differs from the document in memory, whose
\* write to last-good failed.
C36_Witness ==
    /\ LastGoodWriteFailed
    /\ call.branch = "cloud"
    /\ load_json_preserve_order(call.pre.cloud).ok
    /\ dict_update(load_json_preserve_order(call.pre.cloud).val) # call.preMem

\* C37: a call of sync_common leaves the cloud file and the local file as
\* they were, writes no file but last-good and temporary files, and leaves no
\* temporary file behind: the copy of the cloud file is gone and no temporary
\* file of a write remains.  (A local file that vanished under the call, the
\* case of the branch "crashed", is not the call's doing.)
C37_FrameOfSyncCommon ==
    [][(call.name = "" /\ call'.name # "")
          => /\ files'.cloud = files.cloud
             /\ call'.branch # "crashed" => files'.local = files.local
             /\ files'.lg_p = files.lg_p
             /\ files'.lg_tmp = files.lg_tmp
             /\ files'.tmp = NoFile
             /\ temps' = temps]_vars

\* The defaults a seeding pass writes for basename (SyncConfigs passes the
\* configuration as loaded at start-up, or DefaultPlayList).
SeedDocument == IF basename = "config.json" THEN configDefaults ELSE DefaultPlayList

\* The last-good file f is the one a seeding pass wrote.
Seeded(f) == f.ex /\ f.data = json_dump(SeedDocument, TRUE)

\* C38: a seeding pass stamps last-good with the time of the pass; from then
\* on a call that finds the cloud file no newer than the seeded last-good does
\* not apply it, likewise the local file, and when neither is newer the call
\* returns false leaving last-good and the in-memory document as they were.
C38_SeededDefaultsStay ==
    [][(call.name = "" /\ call'.name # "")
          => /\ (call'.branch = "seed" /\ call'.written)
                    => (Seeded(files'.last_good) /\ files'.last_good.mtime = now)
             /\ (Seeded(files.last_good) /\ mtime(files.cloud) <= mtime(files.last_good))
                    => call'.branch # "cloud"
             /\ (Seeded(files.last_good) /\ mtime(files.local) <= mtime(files.last_good))
                    => call'.branch # "local"
             /\ (/\ Seeded(files.last_good)
                 /\ mtime(files.cloud) <= mtime(files.last_good)
                 /\ mtime(files.local) <= mtime(files.last_good))
                    => /\ call'.ret = FALSE
                       /\ files'.last_good = files.last_good
                       /\ Mem' = Mem]_vars

\* A call that found a cloud file that loads, as old as the seeded last-good
\* or older, and a local file older than last-good, and took last-good as the winner.
C38_Witness ==
    /\ Returned
    /\ Seeded(call.pre.last_good)
    /\ load_json_preserve_order(call.pre.cloud).ok
    /\ PreCloud < PreLastGood
    /\ call.pre.local.ex /\ PreLocal < PreLastGood
    /\ call.branch = "last_good"
    /\ Seeded(files.last_good)

(***************************************************************************)
(* Properties of a pass of SyncConfigs (specification SpecConfigs).        *)
(***************************************************************************)
\* C20: in every pass the reconciliation of config.json has completed when
\* that of PlayList.json begins: a pass starts with config.json, and
\* PlayList.json is reconciled only from the state the call for config.json
\* returned in.
C20_ConfigBeforePlayList ==
    [][/\ (call.name = "" /\ call'.name # "") => call'.name = "config.json"
       /\ (call.name # "PlayList.json" /\ call'.name = "PlayList.json")
              => call.name = "config.json"]_vars

\* A pass that applied a newer PlayList.json, after its call for config.json.
C20_Witness ==
    /\ call.name = "PlayList.json" /\ basename = "PlayList.json"
    /\ call.branch \in {"cloud", "local"} /\ call.ret

(***************************************************************************)
(* Properties of LoadConfig (specification SpecLoad).                      *)
(***************************************************************************)
\* What LoadConfig is to return on the files it found: the current document
\* if it parses, else the last-good document if it parses, else the defaults.
Expected ==
    LET cur == load_json_preserve_order(call.pre.local)
        lgd == load_json_preserve_order(call.pre.lg_p)
    IN  IF cur.ok THEN [cfg |-> cur.val, src |-> "current"]
        ELSE IF lgd.ok THEN [cfg |-> lgd.val, src |-> "lastgood"]
        ELSE [cfg |-> defaults_to_config(call.defaults), src |-> "defaults"]

\* C22: LoadConfig leaves the last-good file alone, leaves an existing current
\* file alone whether it parses or not, writes a missing current file only
\* with the document it returns, and returns the current document if it
\* parses, else the last-good document if it parses, else the defaults.
C22_LoadConfigContract ==
    (call.name = "LoadConfig")
        => /\ files.lg_p = call.pre.lg_p
           /\ call.pre.local.ex => files.local = call.pre.local
           /\ files.local.ex /\ ~call.pre.local.ex
                 => load_json_preserve_order(files.local).val = call.cfg
           /\ ~call.raised
           /\ call.cfg = Expected.cfg
           /\ call.src = Expected.src

(***************************************************************************)
(* Properties of the document store (specification SpecStore).             *)
(***************************************************************************)
\* C9: when a step of the write fails (creating the temporary file, dumping,
\* fsync, the rename), the destination keeps its content and no temporary
\* file stays behind; for both writers.
C9_FailedWriteLeavesNothing ==
    (stOp.pc # "idle" /\ stOp.fault \in {"create", "dump", "fsync", "replace"}
                      /\ ~stOp.rmFault)
        => stDst = stOp.pre /\ stTemps = 0

\* C10: a document written by either writer and read back with
\* load_json_preserve_order is the document written, key order included.
C10_RoundTrip ==
    (stOp.pc = "read" /\ stOp.fault = "none") => stRead.ok /\ stRead.val = stDoc

====
